---- MODULE Spec2Model ----
(***************************************************************************)
(* Model of the file-tree action layer (overmind namespace "files"), of   *)
(* the DirectoryEntry view and its drop target, of the NewSandboxModal     *)
(* dialog and of the decorator visitors the linter patches into            *)
(* eslint-scope.                                                           *)
(*                                                                         *)
(* Every async action is split at its single `await`: the part before the  *)
(* await is the action named after the handler (moduleRenamed, ...), the   *)
(* part after it is the action <handler>Done, which receives the outcome   *)
(* of the API call.  Calls in flight live in `pending`; other actions may  *)
(* run between the two halves.                                             *)
(*                                                                         *)
(* Modules and directories are JavaScript objects: `objs` is the heap      *)
(* (index = object reference), `modules` and `directories` are the arrays  *)
(* of references held by state.editor.currentSandbox.                      *)
(***************************************************************************)
EXTENDS Integers, Sequences, FiniteSets, TLC

VARIABLES
    objs,                  \* heap: reference -> [id, shortid, title, directoryShortid]
    modules,               \* currentSandbox.modules, array of references
    directories,           \* currentSandbox.directories, array of references
    currentModuleShortid,  \* state.editor.currentModuleShortid
    uploadedFiles,         \* state.uploadedFiles, array of file ids
    currentModal,          \* state.currentModal
    nextId,                \* source of ids never handed out before
    pending,               \* calls waiting at their await, in start order
    last,                  \* the call that ended in the step just taken
    started,               \* number of calls made so far
    entry,                 \* DirectoryEntry: props.shortid of the rendered entry
    deleteModal,           \* DirectoryEntry: the deleteModal state
    user,                  \* NewSandboxModal: store.user is set
    selectedTab,           \* NewSandboxModal: the selectedTab state
    selected,              \* NewSandboxModal: templates handed to createSandbox
    node,                  \* linter: the AST node handed to a patched visitor
    log,                   \* linter: what the referencer did, in order
    keys,                  \* linter: estraverse.VisitorKeys of the two patterns
    visiting,              \* linter: the calls of the patched visitFunction in progress
    open,                  \* DirectoryEntry: the open state
    creating,              \* DirectoryEntry: the creating state
    isOver,                \* DirectoryEntry: props.isOver
    reading,               \* DirectoryEntry: drops of files still being read
    remote                 \* the remote API: titles it stores, requests it decided

vars == <<objs, modules, directories, currentModuleShortid, uploadedFiles,
          currentModal, nextId, pending, last, started,
          entry, deleteModal, user, selectedTab, selected, node, log, remote,
          keys, visiting, open, creating, isOver, reading>>

viewVars == <<entry, deleteModal>>

\* The state of the components beside the file tree and its view.
modalVars == <<user, selectedTab, selected>>

linterVars == <<node, log, keys, visiting>>

\* The state of a DirectoryEntry beside its delete modal.
entryVars == <<open, creating, isOver, reading>>

otherVars == <<modalVars, linterVars, remote, entryVars>>

nonViewVars == <<objs, modules, directories, currentModuleShortid, uploadedFiles,
                 currentModal, nextId, pending, last, started>>

\* ---------------------------------------------------------------- bounds

\* Calls made in a behaviour.
MaxActions == 2

\* Modules, and directories, the mass-create API returns at most.
MaxBulk == 1

\* ---------------------------------------------------------------- values

\* null / undefined
Null == 0

\* The title handed to the n-th call: each call has a title of its own.
Title(n) == IF n = 0 THEN "x" ELSE IF n = 1 THEN "y" ELSE "z"

Max(a, b) == IF a > b THEN a ELSE b
Min(a, b) == IF a < b THEN a ELSE b

\* ---------------------------------------------------------------- arrays

\* Array.prototype.find by shortid: the first object of `list` whose shortid
\* is `sid`, or Null (undefined).
Find(list, sid) ==
    LET hits == {i \in DOMAIN list : objs[list[i]].shortid = sid}
    IN  IF hits = {} THEN Null
        ELSE list[CHOOSE i \in hits : \A j \in hits : i <= j]

\* Array.prototype.findIndex by shortid: 0-based, -1 when absent.
FindIndex(list, sid) ==
    LET hits == {i \in DOMAIN list : objs[list[i]].shortid = sid}
    IN  IF hits = {} THEN -1
        ELSE (CHOOSE i \in hits : \A j \in hits : i <= j) - 1

\* Array.prototype.indexOf / findIndex on the elements themselves.
IndexOf(list, x) ==
    LET hits == {i \in DOMAIN list : list[i] = x}
    IN  IF hits = {} THEN -1
        ELSE (CHOOSE i \in hits : \A j \in hits : i <= j) - 1

\* Array.prototype.splice(start, deleteCount, ...items): where it starts.
SpliceStart(list, start) ==
    IF start < 0 THEN Max(Len(list) + start, 0) ELSE Min(start, Len(list))

SpliceCount(list, start, deleteCount) ==
    Min(Max(deleteCount, 0), Len(list) - SpliceStart(list, start))

\* The array after splice.
Splice(list, start, deleteCount, items) ==
    LET s == SpliceStart(list, start)
        c == SpliceCount(list, start, deleteCount)
    IN  SubSeq(list, 1, s) \o items \o SubSeq(list, s + c + 1, Len(list))

\* The array splice returns.
Spliced(list, start, deleteCount) ==
    LET s == SpliceStart(list, start)
        c == SpliceCount(list, start, deleteCount)
    IN  SubSeq(list, s + 1, s + c)

ShortidsOf(list) == {objs[list[i]].shortid : i \in DOMAIN list}

\* ---------------------------------------------------------------- calls

\* A call of an action: its arguments, what it captured before its await,
\* what it has done so far (toasts shown, live messages sent, editor
\* callbacks answered) and the state it started from.
Call(kind, sid, dir, title) ==
    [kind |-> kind,            \* the handler
     sid |-> sid,              \* moduleShortid / shortid / directoryShortid / id
     dir |-> dir,              \* the directoryShortid argument
     title |-> title,          \* the title argument
     cbID |-> FALSE,           \* massCreateModules: a cbID was given
     nested |-> FALSE,         \* massCreateModules: awaited by filesUploaded
     obj |-> Null,             \* the object captured before the await
     oldTitle |-> "",          \* const oldTitle
     oldDir |-> Null,          \* const currentDirectoryShortid
     index |-> -1,             \* const index (deletedUploadedFile)
     removed |-> <<>>,         \* what splice returned before the await
     isEditor |-> FALSE,       \* state.live.isCurrentEditor when it resumed
     alone |-> TRUE,           \* no other action has run since it started
     early |-> FALSE,          \* it returned before calling the API
     ok |-> FALSE,             \* the API call returned successfully
     toasts |-> 0,             \* effects.notificationToast.error calls
     live |-> 0,               \* effects.live.send* calls
     callbacks |-> 0,          \* effects.vscode.callCallback calls
     callbackErrors |-> 0,     \* effects.vscode.callCallbackError calls
     optId |-> Null,           \* id of the optimistic entry
     optShortid |-> Null,      \* shortid of the optimistic entry
     apiId |-> Null,           \* id returned by the API
     apiShortid |-> Null,      \* shortid returned by the API
     apiModules |-> <<>>,      \* data.modules returned by the API
     apiDirectories |-> <<>>,  \* data.directories returned by the API
     updates |-> <<>>,         \* syncSandbox: the updates argument
     message |-> "",           \* the error caught: what its message or response holds
     preObjs |-> objs,         \* the state the call started from
     preModules |-> modules,
     preDirectories |-> directories,
     preUploaded |-> uploadedFiles,
     preCurrent |-> currentModuleShortid,
     awaitObjs |-> objs,       \* the state right before the API returned
     awaitModules |-> modules,
     awaitDirectories |-> directories]

NoCall == [Call("none", Null, Null, "") EXCEPT
              !.preObjs = <<>>, !.preModules = <<>>, !.preDirectories = <<>>,
              !.preUploaded = <<>>, !.preCurrent = Null,
              !.awaitObjs = <<>>, !.awaitModules = <<>>, !.awaitDirectories = <<>>]

\* Another action ran: no call in flight is alone any more.
Touch(calls) == [i \in DOMAIN calls |-> [calls[i] EXCEPT !.alone = FALSE]]

RemoveAt(calls, i) == SubSeq(calls, 1, i - 1) \o SubSeq(calls, i + 1, Len(calls))

\* A call may be made.
CanStart == started < MaxActions

\* The call suspends at its await.
Await(call) ==
    /\ pending' = Append(Touch(pending), call)
    /\ last' = NoCall
    /\ started' = started + 1

\* The call runs to its end without awaiting anything.
Finish(call) ==
    /\ pending' = Touch(pending)
    /\ last' = call
    /\ started' = started + 1

\* The call returns early, at a guard.
Return(call) == Finish([call EXCEPT !.early = TRUE])

\* A catch block that also sends on the live channel.
CaughtAndSent(call) == [call EXCEPT !.toasts = call.toasts + 1, !.live = call.live + 1]

\* What every catch block ends with: effects.notificationToast.error(...),
\* and no message on the live channel.
Caught(call) == [call EXCEPT !.toasts = call.toasts + 1]

\* The call pending[i] resumes after its await and runs to its end.
Resume(i, call) ==
    /\ pending' = Touch(RemoveAt(pending, i))
    /\ last' = [call EXCEPT !.awaitObjs = objs,
                            !.awaitModules = modules,
                            !.awaitDirectories = directories]
    /\ UNCHANGED started

\* ---------------------------------------------------------------- state

\* No node is being visited.
NoNode == [hasDecorators |-> FALSE, decorators |-> <<>>, implements |-> 0,
           superTypeParameters |-> 0, typeParameters |-> FALSE, typeCast |-> FALSE]

\* t.VISITOR_KEYS of the two patterns, which monkeypatch copies into
\* estraverse.VisitorKeys when it is installed.
BabelKeys == [ObjectPattern |-> <<"properties", "typeAnnotation">>,
              ArrayPattern |-> <<"elements", "typeAnnotation">>]

\* The directories above the module with id `id`, by id, at most n links up.
RECURSIVE DirectoryIdsFrom(_, _)
DirectoryIdsFrom(sid, n) ==
    LET directory == Find(directories, sid)
    IN  IF n = 0 \/ directory = Null THEN {}
        ELSE {objs[directory].id}
                 \cup DirectoryIdsFrom(objs[directory].directoryShortid, n - 1)

\* state.editor.shouldDirectoryBeOpen(id): the directory is above the
\* current module.
shouldDirectoryBeOpen(id) ==
    LET hits == {i \in DOMAIN modules : objs[modules[i]].shortid = currentModuleShortid}
        module == IF hits # {} THEN modules[CHOOSE i \in hits : \A j \in hits : i <= j]
                  ELSE IF modules # <<>> THEN modules[1] ELSE Null
    IN  /\ module # Null
        /\ id \in DirectoryIdsFrom(objs[module].directoryShortid, Len(directories))

\* props.id of the entry: the id of the directory with its shortid, null
\* for the root.
EntryId == IF entry = Null THEN Null ELSE objs[Find(directories, entry)].id

\* useState(root || shouldDirectoryBeOpen(id))
InitiallyOpen == entry = Null \/ shouldDirectoryBeOpen(EntryId)

\* useState<DeleteModal | null>(null)
NoModal == [type |-> "none", shortid |-> Null, title |-> ""]

InitTree ==
    /\ objs = << [id |-> 1, shortid |-> 2, title |-> "a", directoryShortid |-> Null],
                 [id |-> 3, shortid |-> 4, title |-> "b", directoryShortid |-> 6],
                 [id |-> 5, shortid |-> 6, title |-> "c", directoryShortid |-> Null] >>
    /\ modules = <<1, 2>>
    /\ directories = <<3>>
    /\ currentModuleShortid = 4
    /\ uploadedFiles = <<1, 2>>
    /\ currentModal = "none"
    /\ nextId = 7
    /\ pending = <<>>
    /\ last = NoCall
    /\ started = 0

\* The other components as they are first rendered.
\* The dialog is not used.
ModalIdle ==
    /\ user = FALSE
    /\ selectedTab = 0
    /\ selected = <<>>

\* The linter is not used.
LinterIdle ==
    /\ node = NoNode
    /\ log = <<>>
    /\ keys = BabelKeys
    /\ visiting = <<>>

\* The entry as it is first rendered: nothing is being created, nothing is
\* dragged over it, no dropped file is being read.
EntryIdle ==
    /\ open = InitiallyOpen
    /\ creating = "null"
    /\ isOver = FALSE
    /\ reading = <<>>

\* The API stores the titles of the sandbox as loaded and has no request to
\* decide; no rename has overlapped another.
ApiIdle ==
    remote = [title |-> [r \in DOMAIN objs |-> objs[r].title],
           decided |-> [t \in {Title(n) : n \in 0..2} |-> "none"],
           overlapped |-> {}]

InitOther ==
    /\ ModalIdle
    /\ LinterIdle
    /\ ApiIdle
    /\ EntryIdle

Init ==
    /\ InitTree
    /\ entry = Null
    /\ deleteModal = NoModal
    /\ InitOther

\* ---------------------------------------------------------------- rename

\* moduleRenamed up to its await.
moduleRenamed(title, moduleShortid) ==
    LET module == Find(modules, moduleShortid)
        call == Call("moduleRenamed", moduleShortid, Null, title)
    IN  /\ CanStart
        /\ IF module = Null
             THEN /\ Return(call)
                  /\ UNCHANGED objs
             ELSE /\ objs' = [objs EXCEPT ![module].title = title]
                  /\ Await([call EXCEPT !.obj = module,
                                        !.oldTitle = objs[module].title])
        /\ UNCHANGED <<modules, directories, currentModuleShortid, uploadedFiles,
                       currentModal, nextId>>

\* A catch block that leaves the new title in place.
RenameRollbackMissing(call) == call.title

\* The title moduleRenamed / directoryRenamed put back in their catch block.
RenameRollbackTitle(call) == call.oldTitle

\* moduleRenamed after saveModuleTitle returned (ok) or threw.
moduleRenamedDone(i, ok, editor) ==
    LET call == [pending[i] EXCEPT !.isEditor = editor]
    IN  /\ call.kind = "moduleRenamed"
        /\ IF ok
             THEN /\ UNCHANGED objs
                  /\ Resume(i, [call EXCEPT !.ok = TRUE,
                                   !.live = IF call.isEditor THEN 1 ELSE 0])
             ELSE /\ objs' = [objs EXCEPT ![call.obj].title = RenameRollbackTitle(call)]
                  /\ Resume(i, Caught(call))
        /\ UNCHANGED <<modules, directories, currentModuleShortid, uploadedFiles,
                       currentModal, nextId>>

\* directoryRenamed up to its await.
directoryRenamed(title, directoryShortid) ==
    LET directory == Find(directories, directoryShortid)
        call == Call("directoryRenamed", directoryShortid, Null, title)
    IN  /\ CanStart
        /\ IF directory = Null
             THEN /\ Return(call)
                  /\ UNCHANGED objs
             ELSE /\ objs' = [objs EXCEPT ![directory].title = title]
                  /\ Await([call EXCEPT !.obj = directory,
                                        !.oldTitle = objs[directory].title])
        /\ UNCHANGED <<modules, directories, currentModuleShortid, uploadedFiles,
                       currentModal, nextId>>

\* directoryRenamed after saveDirectoryTitle returned (ok) or threw.
directoryRenamedDone(i, ok, editor) ==
    LET call == [pending[i] EXCEPT !.isEditor = editor]
    IN  /\ call.kind = "directoryRenamed"
        /\ IF ok
             THEN /\ UNCHANGED objs
                  /\ Resume(i, [call EXCEPT !.ok = TRUE,
                                   !.live = IF call.isEditor THEN 1 ELSE 0])
             ELSE /\ objs' = [objs EXCEPT ![call.obj].title = RenameRollbackTitle(call)]
                  /\ Resume(i, Caught(call))
        /\ UNCHANGED <<modules, directories, currentModuleShortid, uploadedFiles,
                       currentModal, nextId>>

\* ---------------------------------------------------------------- create

\* state.editor.mainModule: the sandbox's entry module, else the first module.
MainModule(list) ==
    IF IndexOf(list, 1) >= 0 THEN 1
    ELSE IF list # <<>> THEN list[1] ELSE Null

MainModuleShortid(list, heap) ==
    IF MainModule(list) = Null THEN Null ELSE heap[MainModule(list)].shortid

\* A reconciliation that takes the id and keeps the optimistic shortid.
ReconciledIdOnly(object, id, shortid) == [object EXCEPT !.id = id]

\* The entry once the API has answered: Object.assign(directory, {id, shortid})
\* in directoryCreated, module.id = ...; module.shortid = ... in moduleCreated.
Reconciled(object, id, shortid) == [object EXCEPT !.id = id, !.shortid = shortid]

\* directoryCreated up to its await.
directoryCreated(title, directoryShortid) ==
    LET optimisticDirectory == [id |-> nextId, shortid |-> nextId + 1,
                                title |-> title,
                                directoryShortid |-> directoryShortid]
        call == Call("directoryCreated", Null, directoryShortid, title)
    IN  /\ CanStart
        /\ objs' = Append(objs, optimisticDirectory)
        /\ directories' = Append(directories, Len(objs) + 1)
        /\ nextId' = nextId + 2
        /\ Await([call EXCEPT !.obj = Len(objs) + 1,
                              !.optId = optimisticDirectory.id,
                              !.optShortid = optimisticDirectory.shortid])
        /\ UNCHANGED <<modules, currentModuleShortid, uploadedFiles,
                       currentModal>>

\* A catch block that removes the entry before the optimistic one.
DirectoryCreatedCatchBefore(call) ==
    Splice(directories, FindIndex(directories, call.optShortid) - 1, 1, <<>>)

\* The catch block of directoryCreated: the array without the entry at
\* findIndex(optimistic shortid).
DirectoryCreatedCatch(call) ==
    Splice(directories, FindIndex(directories, call.optShortid), 1, <<>>)

\* directoryCreated after createDirectory returned (ok) or threw.  When the
\* optimistic entry is no longer found, Object.assign(undefined, ...) throws
\* and the catch block runs although the API call succeeded.
directoryCreatedDone(i, ok, editor) ==
    LET call == [pending[i] EXCEPT !.isEditor = editor]
        directory == Find(directories, call.optShortid)
        api == [call EXCEPT !.ok = ok, !.apiId = nextId, !.apiShortid = nextId + 1]
    IN  /\ call.kind = "directoryCreated"
        /\ IF ok /\ directory # Null
             THEN /\ objs' = [objs EXCEPT ![directory] =
                                 Reconciled(objs[directory], api.apiId, api.apiShortid)]
                  /\ Resume(i, [api EXCEPT !.live = 1])
                  /\ UNCHANGED directories
             ELSE /\ directories' = DirectoryCreatedCatch(call)
                  /\ Resume(i, Caught(IF ok THEN api ELSE call))
                  /\ UNCHANGED objs
        /\ nextId' = IF ok THEN nextId + 2 ELSE nextId
        /\ UNCHANGED <<modules, currentModuleShortid, uploadedFiles,
                       currentModal>>

\* moduleCreated up to its await.
moduleCreated(title, directoryShortid) ==
    LET optimisticModule == [id |-> nextId, shortid |-> nextId + 1,
                             title |-> title,
                             directoryShortid |-> directoryShortid]
        call == Call("moduleCreated", Null, directoryShortid, title)
    IN  /\ CanStart
        /\ objs' = Append(objs, optimisticModule)
        /\ modules' = Append(modules, Len(objs) + 1)
        /\ nextId' = nextId + 2
        /\ Await([call EXCEPT !.obj = Len(objs) + 1,
                              !.optId = optimisticModule.id,
                              !.optShortid = optimisticModule.shortid])
        /\ UNCHANGED <<directories, currentModuleShortid, uploadedFiles,
                       currentModal>>

\* The catch block of moduleCreated: the array without the entry at
\* indexOf(module).
ModuleCreatedCatch(call) ==
    Splice(modules, IndexOf(modules, call.obj), 1, <<>>)

\* moduleCreated after createModule returned (ok) or threw.
moduleCreatedDone(i, ok, editor) ==
    LET call == [pending[i] EXCEPT !.isEditor = editor]
        api == [call EXCEPT !.ok = TRUE, !.apiId = nextId, !.apiShortid = nextId + 1]
    IN  /\ call.kind = "moduleCreated"
        /\ IF ok
             THEN /\ objs' = [objs EXCEPT ![call.obj] =
                                 Reconciled(objs[call.obj], api.apiId, api.apiShortid)]
                  /\ currentModuleShortid' = api.apiShortid
                  /\ nextId' = nextId + 2
                  /\ Resume(i, [api EXCEPT !.live = IF call.isEditor THEN 1 ELSE 0])
                  /\ UNCHANGED modules
             ELSE /\ modules' = ModuleCreatedCatch(call)
                  /\ currentModuleShortid' = MainModuleShortid(modules', objs)
                  /\ Resume(i, Caught(call))
                  /\ UNCHANGED <<objs, nextId>>
        /\ UNCHANGED <<directories, uploadedFiles, currentModal>>

\* ---------------------------------------------------------------- move

\* moduleMovedToDirectory up to its await.
moduleMovedToDirectory(moduleShortid, directoryShortid) ==
    LET module == Find(modules, moduleShortid)
        call == Call("moduleMovedToDirectory", moduleShortid, directoryShortid, "")
    IN  /\ CanStart
        /\ IF module = Null
             THEN /\ Return(call)
                  /\ UNCHANGED objs
             ELSE /\ objs' = [objs EXCEPT ![module].directoryShortid = directoryShortid]
                  /\ Await([call EXCEPT !.obj = module,
                                        !.oldDir = objs[module].directoryShortid])
        /\ UNCHANGED <<modules, directories, currentModuleShortid, uploadedFiles,
                       currentModal, nextId>>

\* A catch block that writes the shortid argument instead of the old parent.
ModuleMoveRollbackOwn(call) == call.sid

\* The parent moduleMovedToDirectory puts back in its catch block.
ModuleMoveRollback(call) == call.oldDir

\* moduleMovedToDirectory after saveModuleDirectory returned (ok) or threw.
moduleMovedToDirectoryDone(i, ok, editor) ==
    LET call == [pending[i] EXCEPT !.isEditor = editor]
    IN  /\ call.kind = "moduleMovedToDirectory"
        /\ IF ok
             THEN /\ UNCHANGED objs
                  /\ Resume(i, [call EXCEPT !.ok = TRUE, !.live = 1])
             ELSE /\ objs' = [objs EXCEPT
                                 ![call.obj].directoryShortid = ModuleMoveRollback(call)]
                  /\ Resume(i, Caught(call))
        /\ UNCHANGED <<modules, directories, currentModuleShortid, uploadedFiles,
                       currentModal, nextId>>

\* directoryMovedToDirectory up to its await.  The previous parent is not
\* kept by the handler; oldDir records it for the properties only.
directoryMovedToDirectory(shortid, directoryShortid) ==
    LET directoryToMove == Find(directories, shortid)
        call == Call("directoryMovedToDirectory", shortid, directoryShortid, "")
    IN  /\ CanStart
        /\ IF directoryToMove = Null
             THEN /\ Return(call)
                  /\ UNCHANGED objs
             ELSE /\ objs' = [objs EXCEPT
                                 ![directoryToMove].directoryShortid = directoryShortid]
                  /\ Await([call EXCEPT !.obj = directoryToMove,
                                        !.oldDir = objs[directoryToMove].directoryShortid])
        /\ UNCHANGED <<modules, directories, currentModuleShortid, uploadedFiles,
                       currentModal, nextId>>

\* The parent directoryMovedToDirectory writes in its catch block: the
\* `shortid` argument, that is the moved directory's own shortid.
DirectoryMoveRollback(call) == call.sid

\* directoryMovedToDirectory after saveDirectoryDirectory returned (ok) or threw.
directoryMovedToDirectoryDone(i, ok, editor) ==
    LET call == [pending[i] EXCEPT !.isEditor = editor]
    IN  /\ call.kind = "directoryMovedToDirectory"
        /\ IF ok
             THEN /\ UNCHANGED objs
                  /\ Resume(i, [call EXCEPT !.ok = TRUE, !.live = 1])
             ELSE /\ objs' = [objs EXCEPT
                                 ![call.obj].directoryShortid = DirectoryMoveRollback(call)]
                  /\ Resume(i, Caught(call))
        /\ UNCHANGED <<modules, directories, currentModuleShortid, uploadedFiles,
                       currentModal, nextId>>

\* ---------------------------------------------------------------- delete

\* directoryDeleted up to its await.
directoryDeleted(directoryShortid) ==
    LET directory == Find(directories, directoryShortid)
        call == Call("directoryDeleted", directoryShortid, Null, "")
        at == IndexOf(directories, directory)
    IN  /\ CanStart
        /\ IF directory = Null
             THEN /\ Return(call)
                  /\ UNCHANGED <<directories, currentModuleShortid>>
             ELSE /\ directories' = Splice(directories, at, 1, <<>>)
                  /\ currentModuleShortid' = MainModuleShortid(modules, objs)
                  /\ Await([call EXCEPT !.obj = directory,
                                        !.removed = Spliced(directories, at, 1)])
        /\ UNCHANGED <<objs, modules, uploadedFiles, currentModal,
                       nextId>>

\* A catch block that does not push the removed entry back.
DeleteRollbackMissing(list, call) == list

\* The catch block of directoryDeleted and of moduleDeleted:
\* push(removedDirectory) / push(removedModule).
DeleteRollback(list, call) == list \o call.removed

\* directoryDeleted after deleteDirectory returned (ok) or threw.
directoryDeletedDone(i, ok, editor) ==
    LET call == [pending[i] EXCEPT !.isEditor = editor]
    IN  /\ call.kind = "directoryDeleted"
        /\ IF ok
             THEN /\ UNCHANGED directories
                  /\ Resume(i, [call EXCEPT !.ok = TRUE, !.live = 1])
             ELSE /\ directories' = DeleteRollback(directories, call)
                  /\ Resume(i, Caught(call))
        /\ UNCHANGED <<objs, modules, currentModuleShortid, uploadedFiles,
                       currentModal, nextId>>

\* moduleDeleted up to its await.  The handler does not look at the result
\* of findIndex: splice(-1, 1) takes the last module.  It is called on a
\* sandbox that has a module (an empty array would make removedModule
\* undefined).
moduleDeleted(moduleShortid) ==
    LET moduleToDeleteIndex == FindIndex(modules, moduleShortid)
        call == Call("moduleDeleted", moduleShortid, Null, "")
    IN  /\ CanStart
        /\ modules # <<>>
        /\ modules' = Splice(modules, moduleToDeleteIndex, 1, <<>>)
        /\ currentModuleShortid' = MainModuleShortid(modules', objs)
        /\ Await([call EXCEPT !.index = moduleToDeleteIndex,
                              !.removed = Spliced(modules, moduleToDeleteIndex, 1)])
        /\ UNCHANGED <<objs, directories, uploadedFiles, currentModal,
                       nextId>>

\* moduleDeleted after deleteModule returned (ok) or threw.
moduleDeletedDone(i, ok, editor) ==
    LET call == [pending[i] EXCEPT !.isEditor = editor]
    IN  /\ call.kind = "moduleDeleted"
        /\ IF ok
             THEN /\ UNCHANGED modules
                  /\ Resume(i, [call EXCEPT !.ok = TRUE,
                                   !.live = IF call.isEditor THEN 1 ELSE 0])
             ELSE /\ modules' = DeleteRollback(modules, call)
                  /\ Resume(i, Caught(call))
        /\ UNCHANGED <<objs, directories, currentModuleShortid, uploadedFiles,
                       currentModal, nextId>>

\* state.editor.currentModule: the module selected, else the main module.
CurrentModuleShortid ==
    IF currentModuleShortid \in ShortidsOf(modules)
      THEN currentModuleShortid ELSE MainModuleShortid(modules, objs)

\* removeModule (the tabs it closes are not part of the tree).
removeModule(moduleShortid) ==
    LET module == Find(modules, moduleShortid)
        call == Call("removeModule", moduleShortid, Null, "")
    IN  /\ CanStart
        /\ currentModuleShortid' =
              IF CurrentModuleShortid = moduleShortid
                THEN MainModuleShortid(modules, objs) ELSE currentModuleShortid
        /\ IF module = Null
             THEN /\ Return(call)
                  /\ UNCHANGED modules
             ELSE /\ modules' = Splice(modules, IndexOf(modules, module), 1, <<>>)
                  /\ Finish([call EXCEPT !.obj = module])
        /\ UNCHANGED <<objs, directories, uploadedFiles, currentModal,
                       nextId>>

\* removeDirectory.
removeDirectory(directoryShortid) ==
    LET directory == Find(directories, directoryShortid)
        call == Call("removeDirectory", directoryShortid, Null, "")
    IN  /\ CanStart
        /\ currentModuleShortid' = MainModuleShortid(modules, objs)
        /\ IF directory = Null
             THEN /\ Return(call)
                  /\ UNCHANGED directories
             ELSE /\ directories' =
                        Splice(directories, IndexOf(directories, directory), 1, <<>>)
                  /\ Finish([call EXCEPT !.obj = directory])
        /\ UNCHANGED <<objs, modules, uploadedFiles, currentModal,
                       nextId>>

\* ---------------------------------------------------------------- upload

\* actions.internal.closeModals(false)
ClosedModal == "none"

\* deletedUploadedFile up to its await.  As in moduleDeleted the result of
\* findIndex is used unchecked.
deletedUploadedFile(id) ==
    LET index == IndexOf(uploadedFiles, id)
        call == Call("deletedUploadedFile", id, Null, "")
    IN  /\ CanStart
        /\ uploadedFiles' = Splice(uploadedFiles, index, 1, <<>>)
        /\ Await([call EXCEPT !.index = index,
                              !.removed = Spliced(uploadedFiles, index, 1)])
        /\ UNCHANGED <<objs, modules, directories, currentModuleShortid,
                       currentModal, nextId>>

\* deletedUploadedFile after deleteUploadedFile returned (ok) or threw.
deletedUploadedFileDone(i, ok) ==
    LET call == pending[i]
    IN  /\ call.kind = "deletedUploadedFile"
        /\ IF ok
             THEN /\ UNCHANGED uploadedFiles
                  /\ Resume(i, [call EXCEPT !.ok = TRUE])
             ELSE /\ uploadedFiles' = Splice(uploadedFiles, call.index, 0, call.removed)
                  /\ Resume(i, Caught(call))
        /\ UNCHANGED <<objs, modules, directories, currentModuleShortid,
                       currentModal, nextId>>

\* The n records the mass-create API returns, with ids from `first` on.
ApiEntries(n, first, directoryShortid) ==
    [k \in 1..n |-> [id |-> first + 2 * (k - 1), shortid |-> first + 2 * (k - 1) + 1,
                     title |-> "x", directoryShortid |-> directoryShortid]]

\* The references of n objects put on the heap after `base` objects.
NewRefs(n, base) == [k \in 1..n |-> base + k]

\* A concat the wrong way round: data.modules.concat(modules).
MassCreatePrepend(list, data) == data \o list

\* modules.concat(data.modules) / directories.concat(data.directories)
MassCreateConcat(list, data) == list \o data

\* An answer to the editor that does not look at cbID.
CallbackUnguarded(call) == call.callbacks + call.callbackErrors + 1

\* if (cbID) effects.vscode.callCallback(cbID): the calls made so far.
callCallback(call) == IF call.cbID THEN call.callbacks + 1 ELSE call.callbacks

\* if (cbID) effects.vscode.callCallbackError(cbID, error.message)
callCallbackError(call) ==
    IF call.cbID THEN call.callbackErrors + 1 ELSE call.callbackErrors

\* massCreateModules up to its await: it changes nothing before the API
\* call.  This is the call waiting there.
massCreateModules(directoryShortid, cbID, nested) ==
    [Call("massCreateModules", Null, directoryShortid, "") EXCEPT
        !.cbID = cbID, !.nested = nested]

\* createModulesByPath: massCreateModules at the root, with a cbID.
createModulesByPath ==
    /\ CanStart
    /\ Await(massCreateModules(Null, TRUE, FALSE))
    /\ UNCHANGED <<objs, modules, directories, currentModuleShortid, uploadedFiles,
                       currentModal, nextId>>

\* massCreateModules after the API returned n modules and n directories
\* (ok) or threw.  A call made by filesUploaded returns into it, and
\* filesUploaded closes the modals.
massCreateModulesDone(i, ok, editor, n) ==
    LET call == [pending[i] EXCEPT !.isEditor = editor]
        dataDirectories == ApiEntries(n, nextId, call.dir)
        dataModules == ApiEntries(n, nextId + 2 * n, call.dir)
        directoryRefs == NewRefs(n, Len(objs))
        moduleRefs == NewRefs(n, Len(objs) + n)
    IN  /\ call.kind = "massCreateModules"
        /\ IF ok
             THEN /\ objs' = objs \o dataDirectories \o dataModules
                  /\ modules' = MassCreateConcat(modules, moduleRefs)
                  /\ directories' = MassCreateConcat(directories, directoryRefs)
                  /\ nextId' = nextId + 4 * n
                  /\ Resume(i, [call EXCEPT
                         !.ok = TRUE,
                         !.apiModules = moduleRefs,
                         !.apiDirectories = directoryRefs,
                         !.live = IF call.isEditor THEN 1 ELSE 0,
                         !.callbacks = callCallback(call)])
             ELSE /\ n = 0
                  /\ Resume(i, [Caught(call) EXCEPT
                         !.callbackErrors = callCallbackError(call)])
                  /\ UNCHANGED <<objs, modules, directories, nextId>>
        /\ currentModal' = IF call.nested THEN ClosedModal ELSE currentModal
        /\ UNCHANGED <<currentModuleShortid, uploadedFiles>>

\* filesUploaded up to its first await (internal.uploadFiles).
filesUploaded(directoryShortid) ==
    LET call == Call("filesUploaded", Null, directoryShortid, "")
    IN  /\ CanStart
        /\ currentModal' = "uploading"
        /\ Await(call)
        /\ UNCHANGED <<objs, modules, directories, currentModuleShortid, uploadedFiles,
                       nextId>>

\* A filesUploaded whose catch block has no early return: it shows the toast
\* and closes the modals whatever the error.
filesUploadedDoneClosing(i, outcome) ==
    LET call == pending[i]
        inner == massCreateModules(call.dir, FALSE, TRUE)
    IN  /\ call.kind = "filesUploaded"
        /\ \/ /\ outcome = "ok"
              /\ pending' = [Touch(pending) EXCEPT ![i] = inner]
              /\ last' = NoCall
              /\ UNCHANGED currentModal
           \/ /\ outcome \in {"413", "error"}
              /\ Resume(i, [Caught(call) EXCEPT !.message = outcome])
              /\ currentModal' = ClosedModal
        /\ UNCHANGED <<objs, modules, directories, currentModuleShortid, uploadedFiles,
                       nextId, started>>

\* filesUploaded after uploadFiles returned ("ok": it goes on to await
\* massCreateModules), threw an error whose message holds 413 ("413") or
\* threw another error ("error").
filesUploadedDone(i, outcome) ==
    LET call == pending[i]
        inner == massCreateModules(call.dir, FALSE, TRUE)
    IN  /\ call.kind = "filesUploaded"
        /\ \/ /\ outcome = "ok"
              /\ pending' = [Touch(pending) EXCEPT ![i] = inner]
              /\ last' = NoCall
              /\ UNCHANGED currentModal
           \/ /\ outcome = "413"
              /\ Resume(i, [call EXCEPT !.message = outcome])
              /\ UNCHANGED currentModal
           \/ /\ outcome = "error"
              /\ Resume(i, [Caught(call) EXCEPT !.message = outcome])
              /\ currentModal' = ClosedModal
        /\ UNCHANGED <<objs, modules, directories, currentModuleShortid, uploadedFiles,
                       nextId, started>>

\* ---------------------------------------------------------------- syncSandbox

\* Updates in the list handed to syncSandbox.
MaxUpdates == 2

\* Calls of syncSandbox in a behaviour; they are among the first calls made.
MaxSyncs == 1

\* The entries of an array, as values.
Records(list, heap) == [k \in DOMAIN list |-> heap[list[k]]]

\* The path of the directory with shortid `sid` among `dirs`, as the titles
\* from the root down; "?" stands for a parent that is not there (or is
\* further than n links away), which no path names.
RECURSIVE DirectoryPath(_, _, _)
DirectoryPath(sid, dirs, n) ==
    LET at == {k \in DOMAIN dirs : dirs[k].shortid = sid}
        first == CHOOSE k \in at : \A j \in at : k <= j
    IN  IF sid = Null THEN <<>>
        ELSE IF n = 0 \/ at = {} THEN <<"?">>
        ELSE DirectoryPath(dirs[first].directoryShortid, dirs, n - 1)
                 \o <<dirs[first].title>>

\* resolveModuleWrapped(sandbox)(path) and resolveDirectoryWrapped(sandbox)(path):
\* the index in `entries` of the first entry with that path, 0 when the path
\* resolves to nothing.
Resolve(path, entries, dirs) ==
    LET at == {k \in DOMAIN entries :
                  DirectoryPath(entries[k].directoryShortid, dirs, Len(dirs))
                      \o <<entries[k].title>> = path}
    IN  IF at = {} THEN 0 ELSE CHOOSE k \in at : \A j \in at : k <= j

\* What effects.api.getSandbox returns: a module a that was made anew
\* elsewhere (it has another id and shortid than the local one), directory c
\* as it was loaded, a module e made elsewhere, and no module b any more.
Fetched ==
    [modules |-> << [id |-> 23, shortid |-> 24, title |-> "a", directoryShortid |-> Null],
                    [id |-> 21, shortid |-> 22, title |-> "e", directoryShortid |-> Null] >>,
     directories |-> << [id |-> 5, shortid |-> 6, title |-> "c", directoryShortid |-> Null] >>]

\* The updates a list may hold: a file update whose path resolves in both
\* sandboxes (a), in the fetched one only (e), in neither (q); a file delete
\* whose path resolves locally (c/b); a directory update and a directory
\* delete whose path resolves (c).
Updates ==
    [op : {"update"}, type : {"file"}, path : {<<"a">>, <<"e">>, <<"q">>}]
    \cup [op : {"delete"}, type : {"file"}, path : {<<"c", "b">>}]
    \cup [op : {"update", "delete"}, type : {"directory"}, path : {<<"c">>}]

\* The lists of at most n updates.
RECURSIVE UpdateLists(_)
UpdateLists(n) ==
    IF n = 0 THEN {<<>>}
    ELSE UpdateLists(n - 1)
           \cup {Append(l, u) : l \in {m \in UpdateLists(n - 1) : Len(m) = n - 1},
                                u \in Updates}

\* An update that pushes the fetched module although the path resolves
\* locally.
PushedInstead(st, modulePos, newModule) ==
    [st EXCEPT !.objs = Append(@, newModule), !.modules = Append(@, Len(st.objs) + 1)]

\* Object.assign(state.editor.sandboxes[oldSandbox.id].modules[modulePos],
\* newModule); modulePos counts from 0.
AssignModule(st, modulePos, newModule) ==
    [st EXCEPT !.objs[st.modules[modulePos + 1]] = newModule]

\* The body of updates.forEach for one update, on the tree
\* st = [objs, modules, directories].
ApplyUpdate(st, update) ==
    LET localModules == Records(st.modules, st.objs)
        localDirectories == Records(st.directories, st.objs)
        oldModule == Resolve(update.path, localModules, localDirectories)
        newModule == Resolve(update.path, Fetched.modules, Fetched.directories)
        newDirectory == Resolve(update.path, Fetched.directories, Fetched.directories)
        oldDirectory == Resolve(update.path, localDirectories, localDirectories)
        sameShortid == IF oldDirectory = 0 THEN {}
                       ELSE {k \in DOMAIN localDirectories :
                                localDirectories[k].shortid
                                    = localDirectories[oldDirectory].shortid}
        directory == IF sameShortid = {} THEN 0
                     ELSE CHOOSE k \in sameShortid : \A j \in sameShortid : k <= j
        pushed == Len(st.objs) + 1
    IN  IF update.type = "file"
          THEN IF update.op = "update"
                 THEN IF newModule = 0 THEN st
                      ELSE IF oldModule # 0
                             THEN AssignModule(st, oldModule - 1,
                                               Fetched.modules[newModule])
                             ELSE [st EXCEPT !.objs = Append(@, Fetched.modules[newModule]),
                                             !.modules = Append(@, pushed)]
                 ELSE IF oldModule # 0
                        THEN [st EXCEPT !.modules = Splice(@, oldModule - 1, 1, <<>>)]
                        ELSE st
          ELSE IF update.op = "update"
                 THEN IF newDirectory = 0 THEN st
                      ELSE [st EXCEPT !.objs = Append(@, Fetched.directories[newDirectory]),
                                      !.directories = Append(@, pushed)]
                 ELSE IF directory # 0
                        THEN [st EXCEPT !.directories = Splice(@, directory - 1, 1, <<>>)]
                        ELSE st

\* updates.forEach(...)
RECURSIVE ApplyUpdates(_, _)
ApplyUpdates(st, updates) ==
    IF updates = <<>> THEN st
    ELSE ApplyUpdates(ApplyUpdate(st, Head(updates)), Tail(updates))

\* syncSandbox up to its await.
syncSandbox ==
    /\ CanStart
    /\ started < MaxSyncs
    /\ Await(Call("syncSandbox", Null, Null, ""))
    /\ UNCHANGED <<objs, modules, directories, currentModuleShortid, uploadedFiles,
                   currentModal, nextId>>

\* The catch block of syncSandbox.  It reads error.response.status: for an
\* error with response status 404 ("404") it returns, for one with another
\* status ("error") it shows the toast, and for an error that has no
\* response ("network": the request never got an answer) the read throws a
\* TypeError out of the catch block, before the toast.
SyncCaught(call, outcome) ==
    IF outcome = "error" THEN [Caught(call) EXCEPT !.message = outcome]
    ELSE [call EXCEPT !.message = outcome]

\* syncSandbox after getSandbox returned ("ok"), threw an error with
\* response status 404 ("404"), with another status ("error") or without a
\* response ("network").  The updates argument is not looked at before the
\* await; it is drawn here.
syncSandboxDone(i, outcome, updates) ==
    LET call == [pending[i] EXCEPT !.updates = updates]
        st == ApplyUpdates([objs |-> objs, modules |-> modules,
                            directories |-> directories], updates)
    IN  /\ call.kind = "syncSandbox"
        /\ IF outcome = "ok"
             THEN /\ objs' = st.objs
                  /\ modules' = st.modules
                  /\ directories' = st.directories
                  /\ Resume(i, [call EXCEPT !.ok = TRUE])
             ELSE /\ UNCHANGED <<objs, modules, directories>>
                  /\ Resume(i, SyncCaught(call, outcome))
        /\ UNCHANGED <<currentModuleShortid, uploadedFiles, currentModal, nextId>>

\* ---------------------------------------------------------------- behaviours

\* Shortids an action may be called with: those of the entries, and one that
\* names nothing.
ModuleArgs == ShortidsOf(modules) \cup {Null}
DirectoryArgs == ShortidsOf(directories) \cup {Null}
UploadArgs == {uploadedFiles[k] : k \in DOMAIN uploadedFiles} \cup {Null}

Rename ==
    /\ \/ \E sid \in ModuleArgs : moduleRenamed(Title(started), sid)
       \/ \E sid \in DirectoryArgs : directoryRenamed(Title(started), sid)
    /\ UNCHANGED <<viewVars, otherVars>>

Create ==
    /\ \E dir \in DirectoryArgs :
          \/ moduleCreated(Title(started), dir)
          \/ directoryCreated(Title(started), dir)
    /\ UNCHANGED <<viewVars, otherVars>>

Move ==
    /\ \E dir \in DirectoryArgs :
          \/ \E sid \in ModuleArgs :
                /\ sid = Null => dir = Null
                /\ moduleMovedToDirectory(sid, dir)
          \/ \E sid \in DirectoryArgs \ {dir} :
                directoryMovedToDirectory(sid, dir)
    /\ UNCHANGED <<viewVars, otherVars>>

Delete ==
    /\ \/ \E sid \in ModuleArgs : moduleDeleted(sid)
       \/ \E sid \in DirectoryArgs : directoryDeleted(sid)
    /\ UNCHANGED <<viewVars, otherVars>>

Remove ==
    /\ \/ \E sid \in ModuleArgs : removeModule(sid)
       \/ \E sid \in DirectoryArgs : removeDirectory(sid)
    /\ UNCHANGED <<viewVars, otherVars>>

Upload ==
    /\ \/ \E id \in UploadArgs : deletedUploadedFile(id)
       \/ \E dir \in DirectoryArgs : filesUploaded(dir)
    /\ UNCHANGED <<viewVars, otherVars>>

MassCreate ==
    /\ createModulesByPath
    /\ UNCHANGED <<viewVars, otherVars>>

\* How an API call ends, and what state.live.isCurrentEditor is then (it is
\* read only after a call that succeeded).
Outcomes == {[ok |-> TRUE, editor |-> TRUE], [ok |-> TRUE, editor |-> FALSE],
             [ok |-> FALSE, editor |-> FALSE]}

\* The API answers a call of the rename, create and move handlers.
Done ==
    /\ \E i \in DOMAIN pending, o \in Outcomes :
          \/ moduleRenamedDone(i, o.ok, o.editor)
          \/ directoryRenamedDone(i, o.ok, o.editor)
          \/ moduleCreatedDone(i, o.ok, o.editor)
          \/ directoryCreatedDone(i, o.ok, o.editor)
          \/ moduleMovedToDirectoryDone(i, o.ok, o.editor)
          \/ directoryMovedToDirectoryDone(i, o.ok, o.editor)
    /\ UNCHANGED <<viewVars, otherVars>>

\* The API answers a call of the delete handlers.
DeleteDone ==
    /\ \E i \in DOMAIN pending, o \in Outcomes :
          \/ moduleDeletedDone(i, o.ok, o.editor)
          \/ directoryDeletedDone(i, o.ok, o.editor)
    /\ UNCHANGED <<viewVars, otherVars>>

\* The API answers a mass-create call.
MassDone ==
    /\ \E i \in DOMAIN pending, o \in Outcomes, n \in 0..MaxBulk :
          massCreateModulesDone(i, o.ok, o.editor, n)
    /\ UNCHANGED <<viewVars, otherVars>>

\* The API answers a call of the upload handlers.
UploadDone ==
    /\ \E i \in DOMAIN pending :
          \/ \E ok \in BOOLEAN : deletedUploadedFileDone(i, ok)
          \/ \E outcome \in {"ok", "413", "error"} : filesUploadedDone(i, outcome)
    /\ UNCHANGED <<viewVars, otherVars>>

\* ---------------------------------------------------------------- DirectoryEntry

\* props.root: the entry of the sandbox itself, whose shortid is null.
root == entry = Null

\* The entry is rendered: the root always, a directory while it is in
\* currentSandbox.directories (its title is looked up there).
Mounted(list, heap) ==
    root \/ \E i \in DOMAIN list : heap[list[i]].shortid = entry

\* const title = root ? 'Project' : directories.find(...).title
EntryTitle == IF root THEN "Project" ELSE objs[Find(directories, entry)].title

\* The modules DirectoryChildren lists under this entry, each with a delete
\* button that calls deleteModule(shortid, title).
ChildModules ==
    {modules[i] : i \in {j \in DOMAIN modules : objs[modules[j]].directoryShortid = entry}}

\* A component that is no longer rendered loses its state; the shortid prop
\* of an entry does not change.
ViewFollows ==
    /\ entry' = entry
    /\ deleteModal' = IF Mounted(directories', objs') THEN deleteModal ELSE NoModal
    /\ UNCHANGED otherVars

\* A delete button that dispatches moduleDeleted at once, without a modal.
deleteModuleAtOnce(moduleId, title) ==
    /\ moduleDeleted(moduleId)
    /\ UNCHANGED <<viewVars, otherVars>>

\* deleteModule: the delete button of a child module.
deleteModule(moduleId, title) ==
    /\ deleteModal' = [type |-> "module", shortid |-> moduleId, title |-> title]
    /\ UNCHANGED <<entry, nonViewVars, otherVars>>

\* deleteDirectory: the delete button of the entry itself (not on the root).
deleteDirectory ==
    /\ deleteModal' = [type |-> "directory", shortid |-> entry, title |-> EntryTitle]
    /\ UNCHANGED <<entry, nonViewVars, otherVars>>

\* closeModals: onClose and onCancel of either modal.
closeModals ==
    /\ deleteModal' = NoModal
    /\ UNCHANGED <<entry, nonViewVars, otherVars>>

\* onConfirm of the "Delete Directory" modal.
confirmDeleteDirectory ==
    /\ directoryDeleted(deleteModal.shortid)
    /\ deleteModal' = NoModal
    /\ UNCHANGED <<entry, otherVars>>

\* onConfirm of the "Delete File" modal.
confirmDeleteModule ==
    /\ moduleDeleted(deleteModal.shortid)
    /\ deleteModal' = NoModal
    /\ UNCHANGED <<entry, otherVars>>

\* What the user can do on the rendered entry.
RequestDeleteModule ==
    /\ Mounted(directories, objs)
    /\ \E m \in ChildModules : deleteModule(objs[m].shortid, objs[m].title)

RequestDeleteDirectory ==
    /\ Mounted(directories, objs)
    /\ ~root
    /\ deleteDirectory

CloseModal ==
    /\ Mounted(directories, objs)
    /\ \/ deleteModal.type = "module"
       \/ deleteModal.type = "directory" /\ ~root
    /\ closeModals

ConfirmDeleteDirectory ==
    /\ Mounted(directories, objs)
    /\ deleteModal.type = "directory" /\ ~root
    /\ confirmDeleteDirectory

ConfirmDeleteModule ==
    /\ Mounted(directories, objs)
    /\ deleteModal.type = "module"
    /\ confirmDeleteModule

\* The live channel removes an entry of the tree while the view is shown.
ViewRemove ==
    /\ \/ \E sid \in ModuleArgs : removeModule(sid)
       \/ \E sid \in DirectoryArgs : removeDirectory(sid)
    /\ ViewFollows

\* The API answers a delete the view dispatched.
ViewDeleteDone ==
    /\ \E i \in DOMAIN pending, o \in Outcomes :
          \/ moduleDeletedDone(i, o.ok, o.editor)
          \/ directoryDeletedDone(i, o.ok, o.editor)
    /\ ViewFollows

\* The file tree: rename, create, move, delete of modules and directories,
\* the removals the live channel asks for, and mass-create.
Next ==
    \/ Rename \/ Create \/ Move \/ Delete \/ Remove \/ MassCreate
    \/ Done \/ DeleteDone \/ MassDone

Spec == Init /\ [][Next]_vars

\* The upload pipeline, while the live channel removes entries of the tree.
NextUpload ==
    \/ Upload \/ MassCreate \/ Remove \/ UploadDone \/ MassDone

SpecUpload == Init /\ [][NextUpload]_vars

\* One DirectoryEntry, of the root or of the directory of the initial tree,
\* with the deletes it dispatches.
InitView ==
    /\ InitTree
    /\ entry \in {Null} \cup ShortidsOf(directories)
    /\ deleteModal = NoModal
    /\ InitOther

NextView ==
    \/ RequestDeleteModule \/ RequestDeleteDirectory \/ CloseModal
    \/ ConfirmDeleteDirectory \/ ConfirmDeleteModule
    \/ ViewRemove \/ ViewDeleteDone

SpecView == InitView /\ [][NextView]_vars

\* ---------------------------------------------------------------- drop target

\* A sandbox with a directory inside a directory.
InitNested ==
    /\ objs = << [id |-> 1, shortid |-> 2, title |-> "a", directoryShortid |-> Null],
                 [id |-> 3, shortid |-> 4, title |-> "b", directoryShortid |-> 6],
                 [id |-> 5, shortid |-> 6, title |-> "c", directoryShortid |-> Null],
                 [id |-> 7, shortid |-> 8, title |-> "d", directoryShortid |-> 6] >>
    /\ modules = <<1, 2>>
    /\ directories = <<3, 4>>
    /\ currentModuleShortid = 4
    /\ uploadedFiles = <<1, 2>>
    /\ currentModal = "none"
    /\ nextId = 9
    /\ pending = <<>>
    /\ last = NoCall
    /\ started = 0

\* The props of the DirectoryEntry components on screen: the root and one
\* for each directory.
Targets ==
    {[id |-> Null, shortid |-> Null]}
        \cup {[id |-> objs[d].id, shortid |-> objs[d].shortid] :
                 d \in {directories[i] : i \in DOMAIN directories}}

\* monitor.getItem() for a dragged entry of the tree.
Item(ref, isDirectory) ==
    [id |-> objs[ref].id, shortid |-> objs[ref].shortid,
     directory |-> isDirectory, dirContent |-> FALSE]

\* monitor.getItem() for files dragged in from outside.
NativeFiles == [id |-> Null, shortid |-> Null, directory |-> FALSE, dirContent |-> TRUE]

\* entryTarget.canDrop, with a monitor that holds an item.
canDrop(props, source) == source.id # props.id

\* A drop handler that does not ask whether the entry is the innermost one
\* hovered.
dropAnywhere(props, sourceItem, shallowOver) ==
    IF sourceItem.dirContent
      THEN /\ reading' = Append(reading, props.shortid)
           /\ UNCHANGED nonViewVars
      ELSE /\ IF sourceItem.directory
                THEN directoryMovedToDirectory(sourceItem.shortid, props.shortid)
                ELSE moduleMovedToDirectory(sourceItem.shortid, props.shortid)
           /\ UNCHANGED reading

\* entryTarget.drop; shallowOver is monitor.isOver({ shallow: true }).  A
\* drop that returns at the guard changes nothing.  Dropped files are read
\* first (sourceItem.dirContent.then): the drop leaves props.shortid with the
\* reads in progress.
drop(props, sourceItem, shallowOver) ==
    IF ~shallowOver
      THEN UNCHANGED <<nonViewVars, reading>>
      ELSE IF sourceItem.dirContent
             THEN /\ reading' = Append(reading, props.shortid)
                  /\ UNCHANGED nonViewVars
             ELSE /\ IF sourceItem.directory
                       THEN directoryMovedToDirectory(sourceItem.shortid, props.shortid)
                       ELSE moduleMovedToDirectory(sourceItem.shortid, props.shortid)
                  /\ UNCHANGED reading

\* A directory of the tree is dropped on an entry that accepts it.
DropDirectory ==
    /\ \E props \in Targets, d \in DOMAIN directories, shallowOver \in BOOLEAN :
          /\ canDrop(props, Item(directories[d], TRUE))
          /\ drop(props, Item(directories[d], TRUE), shallowOver)
    /\ UNCHANGED <<viewVars, modalVars, linterVars, remote, open, creating, isOver>>

\* The API answers a directory move.
DirectoryMoveDone ==
    /\ \E i \in DOMAIN pending, o \in Outcomes :
          directoryMovedToDirectoryDone(i, o.ok, o.editor)
    /\ UNCHANGED <<viewVars, otherVars>>

\* Directories dragged onto the entries of the tree.
InitDrop ==
    /\ InitNested
    /\ entry = Null
    /\ deleteModal = NoModal
    /\ InitOther

NextDrop == DropDirectory \/ DirectoryMoveDone

SpecDrop == InitDrop /\ [][NextDrop]_vars

\* ---------------------------------------------------------------- synchronisation

Sync ==
    /\ syncSandbox
    /\ UNCHANGED <<viewVars, otherVars>>

\* The API answers getSandbox.
SyncDone ==
    /\ \E i \in DOMAIN pending, outcome \in {"ok", "404", "error", "network"},
          updates \in UpdateLists(MaxUpdates) :
          syncSandboxDone(i, outcome, updates)
    /\ UNCHANGED <<viewVars, otherVars>>

\* The sandbox is synchronised with the remote one.
NextSync == Sync \/ SyncDone

SpecSync == Init /\ [][NextSync]_vars

\* ---------------------------------------------------------------- overlapping renames

\* The renames of modules with the API made explicit: a request is decided
\* by the API (accepted, and then the API stores the title, or rejected)
\* some time after it was sent, and answered some time after that, so that
\* answers may arrive in another order than the requests were decided in.

\* A pending rename of the module `module`.
RenamePending(module) ==
    \E i \in DOMAIN pending :
        pending[i].kind = "moduleRenamed" /\ pending[i].obj = module

\* moduleRenamed is called; the rename overlaps when another rename of the
\* same module is still waiting for its answer.
RenameSent ==
    /\ \E sid \in ShortidsOf(modules) :
          /\ moduleRenamed(Title(started), sid)
          /\ remote' = IF RenamePending(Find(modules, sid))
                      THEN [remote EXCEPT !.overlapped = @ \cup {Find(modules, sid)}]
                      ELSE remote
    /\ UNCHANGED <<viewVars, modalVars, linterVars, entryVars>>

\* effects.api.saveModuleTitle at the API: the request is accepted or rejected.
RenameDecided ==
    /\ \E i \in DOMAIN pending, ok \in BOOLEAN :
          /\ pending[i].kind = "moduleRenamed"
          /\ remote.decided[pending[i].title] = "none"
          /\ remote' = [remote EXCEPT
                       !.decided[pending[i].title] = IF ok THEN "accepted" ELSE "rejected",
                       !.title[pending[i].obj] = IF ok THEN pending[i].title ELSE @]
    /\ UNCHANGED <<nonViewVars, viewVars, modalVars, linterVars, entryVars>>

\* The answer of the API reaches the action.
RenameAnswered ==
    /\ \E i \in DOMAIN pending, editor \in BOOLEAN :
          /\ remote.decided[pending[i].title] # "none"
          /\ moduleRenamedDone(i, remote.decided[pending[i].title] = "accepted", editor)
    /\ UNCHANGED <<viewVars, otherVars>>

NextRename == RenameSent \/ RenameDecided \/ RenameAnswered

SpecRename == Init /\ [][NextRename]_vars

\* ---------------------------------------------------------------- NewSandboxModal

\* Templates the user picks in a behaviour.
MaxSelected == 2

\* The names mapped over for the tab buttons, in array order; the tabIndex
\* of a button is its index in this array (from 0), taken before the filter.
ButtonNames ==
    << "Overview",
       IF user THEN "My Templates" ELSE "",
       IF user THEN "Favorites" ELSE "",
       "Client", "Container", "Import" >>

\* .filter(({ name }) => Boolean(name)): the tabIndex of every button shown.
Buttons == {k \in 0..(Len(ButtonNames) - 1) : ButtonNames[k + 1] # ""}

\* The <Tab> elements of InnerContainer in document order: what each holds,
\* whether it is rendered only for a user, and the selectedTab it is visible at.
Tabs ==
    << [content |-> "overview",    forUser |-> FALSE, at |-> 0],
       [content |-> "myTemplates", forUser |-> TRUE,  at |-> 1],
       [content |-> "client",      forUser |-> FALSE, at |-> 2],
       [content |-> "favorites",   forUser |-> TRUE,  at |-> 2],
       [content |-> "client",      forUser |-> FALSE, at |-> 3],
       [content |-> "container",   forUser |-> FALSE, at |-> 4],
       [content |-> "import",      forUser |-> FALSE, at |-> 5] >>

\* The <Tab> elements that are rendered and have visible = true.
VisibleTabs ==
    SelectSeq(Tabs, LAMBDA tab : (tab.forUser => user) /\ tab.at = selectedTab)

\* The templates a panel offers, one of each list standing for the list.
TemplatesOf(content) ==
    CASE content = "overview"    -> IF user THEN {"popular", "mine"} ELSE {"popular"}
      [] content = "myTemplates" -> {"mine"}
      [] content = "favorites"   -> {"favorite"}
      [] content = "client"      -> {"client", "preset"}
      [] OTHER                   -> {}

\* onClick of a tab button: setSelectedTab(tabIndex).
setSelectedTab(tabIndex) ==
    /\ selectedTab' = tabIndex
    /\ UNCHANGED <<user, selected>>

\* selectTemplate: track(...) and createSandbox(template).
selectTemplate(template) ==
    /\ Len(selected) < MaxSelected
    /\ selected' = Append(selected, template)
    /\ UNCHANGED <<user, selectedTab>>

ClickTab ==
    /\ \E tabIndex \in Buttons : setSelectedTab(tabIndex)
    /\ UNCHANGED <<nonViewVars, viewVars, linterVars, remote, entryVars>>

PickTemplate ==
    /\ \E k \in DOMAIN VisibleTabs :
          \E template \in TemplatesOf(VisibleTabs[k].content) :
             selectTemplate(template)
    /\ UNCHANGED <<nonViewVars, viewVars, linterVars, remote, entryVars>>

\* The dialog, opened with or without a logged-in user.
InitModal ==
    /\ InitTree
    /\ entry = Null
    /\ deleteModal = NoModal
    /\ user \in BOOLEAN
    /\ selectedTab = 0
    /\ selected = <<>>
    /\ LinterIdle
    /\ ApiIdle
    /\ EntryIdle

NextModal == ClickTab \/ PickTemplate

SpecModal == InitModal /\ [][NextModal]_vars

\* ---------------------------------------------------------------- linter patch

\* Entries of node.decorators at most.
MaxDecorators == 2

\* Arrays of at most n booleans.
RECURSIVE Flags(_)
Flags(n) ==
    IF n = 0 THEN {<<>>}
    ELSE Flags(n - 1) \cup {Append(f, b) : f \in {g \in Flags(n - 1) : Len(g) = n - 1},
                                           b \in BOOLEAN}

\* The nodes handed to the visitors.  decorators[i] tells whether entry i
\* has an expression; hasDecorators is false when node.decorators is absent.
\* implements and superTypeParameters count the identifiers of
\* node.implements and node.superTypeParameters.params, typeParameters is
\* set when the node has (annotation-free) type parameters, typeCast when
\* node.value is a TypeCastExpression.
Nodes ==
    [hasDecorators : {TRUE}, decorators : Flags(MaxDecorators), implements : 0..1,
     superTypeParameters : 0..1, typeParameters : BOOLEAN, typeCast : BOOLEAN]
    \cup [hasDecorators : {FALSE}, decorators : {<<>>}, implements : 0..1,
          superTypeParameters : 0..1, typeParameters : BOOLEAN, typeCast : BOOLEAN]

\* One thing the referencer did: this.visit of a child, a scope nested or
\* closed, the original visitor called.
Did(what, index) == [visit |-> what, index |-> index]

\* A visitDecorators that does not look for an expression.
RECURSIVE VisitDecoratorsUnchecked(_, _)
VisitDecoratorsUnchecked(n, i) ==
    IF i > Len(n.decorators) THEN <<>>
    ELSE <<Did("decorator", i)>> \o VisitDecoratorsUnchecked(n, i + 1)

\* The loop of visitDecorators, from entry i on.
RECURSIVE VisitDecoratorsFrom(_, _)
VisitDecoratorsFrom(n, i) ==
    IF i > Len(n.decorators) THEN <<>>
    ELSE (IF n.decorators[i] THEN <<Did("decorator", i)>> ELSE <<>>)
             \o VisitDecoratorsFrom(n, i + 1)

\* visitDecorators(node)
visitDecorators(n) ==
    IF ~n.hasDecorators THEN <<>> ELSE VisitDecoratorsFrom(n, 1)

\* checkIdentifierOrVisit on each identifier of node.implements.
VisitImplements(n) == [i \in 1..n.implements |-> Did("implements", i)]

\* checkIdentifierOrVisit on each identifier of node.superTypeParameters.params.
VisitSuperTypeParameters(n) ==
    [i \in 1..n.superTypeParameters |-> Did("superTypeParameters", i)]

\* The patched referencer.prototype.visitClass.
visitClass(n) ==
    visitDecorators(n)
        \o (IF n.typeParameters THEN <<Did("nestScope", 0)>> ELSE <<>>)
        \o VisitImplements(n)
        \o VisitSuperTypeParameters(n)
        \o <<Did("original", 0)>>
        \o (IF n.typeParameters THEN <<Did("close", 0)>> ELSE <<>>)

\* The patched referencer.prototype.visitProperty.
visitProperty(n) ==
    (IF n.typeCast THEN <<Did("typeAnnotation", 0)>> ELSE <<>>)
        \o visitDecorators(n)
        \o <<Did("original", 0)>>

VisitClass ==
    /\ log = <<>>
    /\ log' = visitClass(node)
    /\ UNCHANGED <<node, keys, visiting, nonViewVars, viewVars, modalVars, remote, entryVars>>

VisitProperty ==
    /\ log = <<>>
    /\ log' = visitProperty(node)
    /\ UNCHANGED <<node, keys, visiting, nonViewVars, viewVars, modalVars, remote, entryVars>>

\* A node of the program being linted reaches one of the two visitors.
InitLinter ==
    /\ InitTree
    /\ entry = Null
    /\ deleteModal = NoModal
    /\ ModalIdle
    /\ ApiIdle
    /\ EntryIdle
    /\ node \in Nodes
    /\ log = <<>>
    /\ keys = BabelKeys
    /\ visiting = <<>>

NextLinter == VisitClass \/ VisitProperty

SpecLinter == InitLinter /\ [][NextLinter]_vars

\* ---------------------------------------------------------------- entry state

\* Titles submitted from the inline entry in a behaviour.
MaxSubmits == 1

\* An effect that makes the open state follow props.isOver.
isOverFollowed(over) == open' = over

\* React.useEffect(() => { if (isOver) setOpen(true) }, [isOver]), run when
\* props.isOver has become `over`.
isOverEffect(over) == open' = (over \/ open)

\* The reaction on editor.currentModuleShortid: when it has changed,
\* setOpen(isOpen => isOpen || shouldDirectoryBeOpen(id)).
currentModuleReaction ==
    open' = IF currentModuleShortid' # currentModuleShortid
              THEN open \/ shouldDirectoryBeOpen(EntryId)'
              ELSE open

\* resetState
resetState == creating' = "null"

\* onCreateModuleClick
onCreateModuleClick ==
    /\ creating' = "module"
    /\ open' = TRUE

\* onCreateDirectoryClick
onCreateDirectoryClick ==
    /\ creating' = "directory"
    /\ open' = TRUE

\* A createModule that leaves the inline entry in place.
createModuleOnly(title) ==
    /\ moduleCreated(title, entry)
    /\ UNCHANGED creating

\* createModule: rename of the inline entry shown while creating a module.
createModule(title) ==
    /\ moduleCreated(title, entry)
    /\ resetState

\* createDirectory: rename of the inline entry shown while creating a
\* directory.
createDirectory(title) ==
    /\ directoryCreated(title, entry)
    /\ resetState

\* toggleOpen: onClick of the entry.
toggleOpen == open' = ~open

\* closeTree
closeTree == open' = FALSE

\* setCurrentModule(moduleId): moduleSelected({ id }) makes that module the
\* current one.
setCurrentModule(moduleId) ==
    LET hits == {i \in DOMAIN modules : objs[modules[i]].id = moduleId}
    IN  /\ hits # {}
        /\ currentModuleShortid' = objs[modules[CHOOSE i \in hits : TRUE]].shortid
        /\ UNCHANGED <<objs, modules, directories, uploadedFiles, currentModal, nextId,
                       pending, last, started>>

\* What happens to the rendered entry.
\* A drag comes to hover over the entry, or leaves it.
Hover ==
    /\ isOver' = ~isOver
    /\ isOverEffect(isOver')
    /\ UNCHANGED <<creating, reading, nonViewVars, viewVars, modalVars, linterVars, remote>>

ClickCreateModule ==
    /\ onCreateModuleClick
    /\ UNCHANGED <<isOver, reading, nonViewVars, viewVars, modalVars, linterVars, remote>>

ClickCreateDirectory ==
    /\ onCreateDirectoryClick
    /\ UNCHANGED <<isOver, reading, nonViewVars, viewVars, modalVars, linterVars, remote>>

\* The title typed into the inline entry is submitted.
SubmitModule ==
    /\ creating = "module"
    /\ started < MaxSubmits
    /\ createModule(Title(started))
    /\ UNCHANGED <<open, isOver, reading, viewVars, modalVars, linterVars, remote>>

SubmitDirectory ==
    /\ creating = "directory"
    /\ started < MaxSubmits
    /\ createDirectory(Title(started))
    /\ UNCHANGED <<open, isOver, reading, viewVars, modalVars, linterVars, remote>>

\* onRenameCancel of the inline entry.
CancelCreate ==
    /\ creating # "null"
    /\ resetState
    /\ UNCHANGED <<open, isOver, reading, nonViewVars, viewVars, modalVars, linterVars,
                   remote>>

\* The entry of a directory is clicked; the root has no entry of its own.
ToggleOpen ==
    /\ ~root
    /\ toggleOpen
    /\ UNCHANGED <<creating, isOver, reading, nonViewVars, viewVars, modalVars,
                   linterVars, remote>>

CloseTree ==
    /\ ~root
    /\ closeTree
    /\ UNCHANGED <<creating, isOver, reading, nonViewVars, viewVars, modalVars,
                   linterVars, remote>>

\* A module of the tree is selected.
SelectModule ==
    /\ \E m \in DOMAIN modules : setCurrentModule(objs[modules[m]].id)
    /\ UNCHANGED <<creating, isOver, reading, viewVars, modalVars, linterVars, remote>>
    /\ currentModuleReaction

\* The API answers a create the entry dispatched.
EntryCreateDone ==
    /\ \E i \in DOMAIN pending, o \in Outcomes :
          \/ moduleCreatedDone(i, o.ok, o.editor)
          \/ directoryCreatedDone(i, o.ok, o.editor)
    /\ UNCHANGED <<creating, isOver, reading, viewVars, modalVars, linterVars, remote>>
    /\ currentModuleReaction

\* One DirectoryEntry, of the root, of directory c (above the current module)
\* or of directory d (not above it), with the creates it dispatches.
InitEntry ==
    /\ InitNested
    /\ entry \in {Null} \cup ShortidsOf(directories)
    /\ deleteModal = NoModal
    /\ InitOther

NextEntry ==
    \/ Hover \/ ClickCreateModule \/ ClickCreateDirectory
    \/ SubmitModule \/ SubmitDirectory \/ CancelCreate
    \/ ToggleOpen \/ CloseTree \/ SelectModule \/ EntryCreateDone

SpecEntry == InitEntry /\ [][NextEntry]_vars

\* ---------------------------------------------------------------- drop dispatch

\* Drops that dispatch something in a behaviour.
MaxDrops == 1

\* The files of a drop have been read: the callback given to
\* sourceItem.dirContent.then dispatches filesUploaded with the shortid of
\* the entry they were dropped on.
filesRead(k) ==
    /\ filesUploaded(reading[k])
    /\ reading' = RemoveAt(reading, k)

\* What can be dragged: the modules and directories of the tree, and files
\* from outside.
TreeItems ==
    {Item(modules[m], FALSE) : m \in DOMAIN modules}
        \cup {Item(directories[d], TRUE) : d \in DOMAIN directories}

\* An entry of the tree is dropped on an entry that accepts it.
DropItem ==
    /\ started + Len(reading) < MaxDrops
    /\ \E props \in Targets, source \in TreeItems, shallowOver \in BOOLEAN :
          /\ canDrop(props, source)
          /\ drop(props, source, shallowOver)
    /\ UNCHANGED <<viewVars, modalVars, linterVars, remote, open, creating, isOver>>

\* Files are dropped on an entry (whether the root accepts them depends on
\* the id its parent gives it; both cases are taken).
DropFiles ==
    /\ started + Len(reading) < MaxDrops
    /\ \E props \in Targets, shallowOver \in BOOLEAN :
          drop(props, NativeFiles, shallowOver)
    /\ UNCHANGED <<viewVars, modalVars, linterVars, remote, open, creating, isOver>>

FilesRead ==
    /\ \E k \in DOMAIN reading : filesRead(k)
    /\ UNCHANGED <<viewVars, modalVars, linterVars, remote, open, creating, isOver>>

\* The API answers a move or an upload the drop dispatched.
DropDone ==
    /\ \E i \in DOMAIN pending :
          \/ \E o \in Outcomes :
                \/ moduleMovedToDirectoryDone(i, o.ok, o.editor)
                \/ directoryMovedToDirectoryDone(i, o.ok, o.editor)
          \/ \E outcome \in {"ok", "413", "error"} : filesUploadedDone(i, outcome)
    /\ UNCHANGED <<viewVars, otherVars>>

\* Everything that can be dragged over and dropped on the entries of the
\* tree.
NextDropTarget == Hover \/ DropItem \/ DropFiles \/ FilesRead \/ DropDone \/ MassDone

SpecDropTarget == InitDrop /\ [][NextDropTarget]_vars

\* ---------------------------------------------------------------- visitFunction

\* Functions nested in one another at most.
MaxNesting == 3

\* Entries of the log at which the traversal goes no deeper and visits no
\* further pattern.
MaxLog == 4

\* The keys the patched visitFunction sets before it calls the original.
OriginalKeys == [ObjectPattern |-> <<"properties">>, ArrayPattern |-> <<"elements">>]

\* The patched referencer.prototype.visitFunction up to its call of the
\* original visitFunction: the scope of the type parameters is nested, the
\* keys of the two patterns are set, the original is called.  (The return
\* type and the annotated parameters it visits first do not touch the keys.)
visitFunction(typeParameters) ==
    /\ keys' = OriginalKeys
    /\ visiting' = Append(visiting, [typeParamScope |-> typeParameters])
    /\ log' = log \o (IF typeParameters THEN <<Did("nestScope", Len(visiting) + 1)>>
                      ELSE <<>>)
                  \o <<Did("original", Len(visiting) + 1)>>

\* The original visitFunction, at work on the innermost function, comes to
\* an object or array pattern (a parameter, a declaration of the body):
\* estraverse takes the children the keys name, so with other keys than the
\* original ones it also walks into the type annotation.
visitPattern ==
    log' = Append(log, Did(IF keys = OriginalKeys THEN "pattern"
                           ELSE "patternAndAnnotation", Len(visiting)))

\* The original visitFunction returns to the patched one, which sets the
\* keys to those of t.VISITOR_KEYS and closes the scope it nested.
visitFunctionDone ==
    LET call == visiting[Len(visiting)]
    IN  /\ keys' = BabelKeys
        /\ visiting' = SubSeq(visiting, 1, Len(visiting) - 1)
        /\ log' = log \o (IF call.typeParamScope THEN <<Did("close", Len(visiting))>>
                          ELSE <<>>)

\* The referencer comes to a function: at the top of the program, or in the
\* body of the function the original visitFunction is at work on.
EnterFunction ==
    /\ Len(visiting) < MaxNesting
    /\ Len(log) < MaxLog
    /\ \E typeParameters \in BOOLEAN : visitFunction(typeParameters)
    /\ UNCHANGED <<node, nonViewVars, viewVars, modalVars, remote, entryVars>>

VisitPattern ==
    /\ visiting # <<>>
    /\ Len(log) < MaxLog
    /\ visitPattern
    /\ UNCHANGED <<node, keys, visiting, nonViewVars, viewVars, modalVars, remote,
                   entryVars>>

LeaveFunction ==
    /\ visiting # <<>>
    /\ visitFunctionDone
    /\ UNCHANGED <<node, nonViewVars, viewVars, modalVars, remote, entryVars>>

\* The functions of the program being linted reach the patched
\* visitFunction.
NextFunctions == EnterFunction \/ VisitPattern \/ LeaveFunction

SpecFunctions == Init /\ [][NextFunctions]_vars

\* ---------------------------------------------------------------- properties

\* The call that just ended called the API (it did not return at a guard).
Ended(kinds) == last.kind \in kinds /\ ~last.early

\* How often x occurs in an array.
Count(list, x) == Cardinality({i \in DOMAIN list : list[i] = x})

\* Two arrays hold the same entries, each as often, in any order.
SameEntries(a, b) ==
    /\ Len(a) = Len(b)
    /\ \A i \in DOMAIN a : Count(a, a[i]) = Count(b, a[i])

\* The objects that existed in `heap` are as they were.
Unaltered(heap) == SubSeq(objs, 1, Len(heap)) = heap

\* C1: when moduleRenamed (directoryRenamed) ran with no other action
\* interleaved and the save call failed, the entry has the title it had before
\* the action and every module and directory is as it was.
C1_RenameRollback ==
    (Ended({"moduleRenamed", "directoryRenamed"}) /\ ~last.ok /\ last.alone) =>
        /\ objs[last.obj].title = last.preObjs[last.obj].title
        /\ objs = last.preObjs
        /\ modules = last.preModules
        /\ directories = last.preDirectories

\* A rename that changed the title failed, alone.
C1_Witness ==
    /\ Ended({"moduleRenamed"}) /\ ~last.ok /\ last.alone
    /\ last.title # last.oldTitle
    /\ Len(modules) > 1

\* C2: when directoryMovedToDirectory ran with no other action interleaved
\* and saveDirectoryDirectory failed, the directory has the parent it had
\* before the action.
C2_DirectoryMoveRollback ==
    (Ended({"directoryMovedToDirectory"}) /\ ~last.ok /\ last.alone) =>
        objs[last.obj].directoryShortid = last.preObjs[last.obj].directoryShortid

\* C3: when moduleMovedToDirectory ran with no other action interleaved, the
\* module's parent is the one it had before when saveModuleDirectory failed,
\* and the requested one when it succeeded.
C3_ModuleMoveRollback ==
    (Ended({"moduleMovedToDirectory"}) /\ last.alone) =>
        objs[last.obj].directoryShortid =
            IF last.ok THEN last.dir
            ELSE last.preObjs[last.obj].directoryShortid

\* A move to another directory failed, alone.
C3_Witness ==
    /\ Ended({"moduleMovedToDirectory"}) /\ ~last.ok /\ last.alone
    /\ last.dir # last.preObjs[last.obj].directoryShortid

\* C4: when moduleCreated (directoryCreated) ran with no other action
\* interleaved and the create call failed, the optimistic entry is gone and
\* both arrays are the arrays from before the action, every entry unaltered.
C4_CreateRollback ==
    (Ended({"moduleCreated", "directoryCreated"}) /\ ~last.ok /\ last.alone) =>
        /\ modules = last.preModules
        /\ directories = last.preDirectories
        /\ Unaltered(last.preObjs)
        /\ Count(modules, last.obj) = 0
        /\ Count(directories, last.obj) = 0

\* A directory create failed, alone, in a sandbox that had a directory.
C4_Witness ==
    /\ Ended({"directoryCreated"}) /\ ~last.ok /\ last.alone
    /\ Len(last.preDirectories) > 0

\* C5: when directoryDeleted (moduleDeleted), called for a shortid that
\* exists, ran with no other action interleaved: after a failed API call the
\* array holds the same entries as before, the removed one exactly once;
\* after a successful one the entry is absent and the others are retained.
C5_DeleteRollback ==
    LET existed == IF last.kind = "moduleDeleted" THEN last.index >= 0 ELSE TRUE
        before == IF last.kind = "moduleDeleted"
                    THEN last.preModules ELSE last.preDirectories
        now == IF last.kind = "moduleDeleted" THEN modules ELSE directories
        entryRemoved == last.removed[1]
    IN  (Ended({"moduleDeleted", "directoryDeleted"}) /\ existed /\ last.alone) =>
            /\ objs = last.preObjs
            /\ last.preObjs[entryRemoved].shortid = last.sid
            /\ IF last.ok
                 THEN /\ Count(now, entryRemoved) = 0
                      /\ now = SelectSeq(before, LAMBDA r : r # entryRemoved)
                 ELSE /\ SameEntries(now, before)
                      /\ Count(now, entryRemoved) = 1
            /\ last.kind = "moduleDeleted" => directories = last.preDirectories
            /\ last.kind = "directoryDeleted" => modules = last.preModules

\* A delete of an existing module failed, alone, other modules being there.
C5_Witness ==
    /\ Ended({"moduleDeleted"}) /\ ~last.ok /\ last.alone
    /\ last.index >= 0
    /\ Len(last.preModules) > 1

\* C6: when moduleCreated or directoryCreated succeeded with no other action
\* interleaved, the array holds the created entry exactly once, that entry
\* carries the id and shortid the API returned, and no entry of the tree
\* carries the optimistic id or shortid.
C6_CreateReconciliation ==
    LET now == IF last.kind = "moduleCreated" THEN modules ELSE directories
        optimistic == {last.optId, last.optShortid}
    IN  (Ended({"moduleCreated", "directoryCreated"}) /\ last.ok /\ last.alone) =>
            /\ Count(now, last.obj) = 1
            /\ objs[last.obj].id = last.apiId
            /\ objs[last.obj].shortid = last.apiShortid
            /\ Cardinality({i \in DOMAIN now :
                               objs[now[i]].shortid = last.apiShortid}) = 1
            /\ \A r \in {modules[i] : i \in DOMAIN modules}
                        \cup {directories[i] : i \in DOMAIN directories} :
                   objs[r].id \notin optimistic /\ objs[r].shortid \notin optimistic

\* A directory create succeeded, alone.
C6_Witness ==
    /\ Ended({"directoryCreated"}) /\ last.ok /\ last.alone
    /\ last.apiShortid # last.optShortid

\* C7: an action sends on the live channel only after its API call has
\* returned successfully: no call still waiting has sent, and a call that
\* ended has sent only if its API call succeeded.
C7_LiveAfterSuccess ==
    /\ \A i \in DOMAIN pending : pending[i].live = 0
    /\ last.live > 0 => last.ok /\ ~last.early
    /\ (last.kind # "none" /\ ~last.ok) => last.live = 0

\* A mass-create succeeded and then sent its message.
C7_Witness ==
    Ended({"massCreateModules"}) /\ last.ok /\ last.live = 1

\* C8: each file-tree action shows exactly one error toast when its API call
\* failed and none when it succeeded.
C8_FailureNotification ==
    Ended({"moduleRenamed", "directoryRenamed", "moduleMovedToDirectory",
           "directoryMovedToDirectory", "moduleCreated", "directoryCreated",
           "moduleDeleted", "directoryDeleted", "massCreateModules",
           "deletedUploadedFile"}) =>
        last.toasts = IF last.ok THEN 0 ELSE 1

\* C9: when massCreateModules succeeded, each array is the array from right
\* before the API answered followed by the entries the API returned, and no
\* object that existed was altered; when it failed nothing changed.  With no
\* other action interleaved that array is the one from before the action.
C9_BulkInsert ==
    Ended({"massCreateModules"}) =>
        /\ IF last.ok
             THEN /\ modules = last.awaitModules \o last.apiModules
                  /\ directories = last.awaitDirectories \o last.apiDirectories
                  /\ Unaltered(last.awaitObjs)
             ELSE /\ modules = last.awaitModules
                  /\ directories = last.awaitDirectories
                  /\ objs = last.awaitObjs
        /\ last.alone =>
              /\ last.awaitModules = last.preModules
              /\ last.awaitDirectories = last.preDirectories
              /\ last.awaitObjs = last.preObjs

\* An upload's mass-create succeeded and added entries to non-empty arrays.
C9_Witness ==
    /\ Ended({"massCreateModules"}) /\ last.ok /\ last.nested
    /\ Len(last.apiModules) > 0 /\ Len(last.apiDirectories) > 0
    /\ Len(last.awaitModules) > 0 /\ Len(last.awaitDirectories) > 0

\* The step starts a call of moduleDeleted or directoryDeleted.
DeleteDispatched ==
    /\ started' = started + 1
    /\ IF Len(pending') > Len(pending)
         THEN pending'[Len(pending')].kind \in {"moduleDeleted", "directoryDeleted"}
         ELSE last'.kind \in {"moduleDeleted", "directoryDeleted"}

\* The arguments of the call the step starts.
Dispatched == IF Len(pending') > Len(pending) THEN pending'[Len(pending')] ELSE last'

\* C10: in the directory tree view a delete is dispatched only from an open
\* delete modal, for the shortid and the kind of entry stored in it, and the
\* step closes the modal; a step that opens the modal, and a step that closes
\* it without a dispatch, change nothing but the modal.
C10_DeleteNeedsConfirmation ==
    /\ [][DeleteDispatched =>
            /\ deleteModal.type # "none"
            /\ Dispatched.sid = deleteModal.shortid
            /\ Dispatched.kind = (IF deleteModal.type = "module"
                                    THEN "moduleDeleted" ELSE "directoryDeleted")
            /\ deleteModal' = NoModal]_vars
    /\ [][(deleteModal.type = "none" /\ deleteModal'.type # "none") =>
            UNCHANGED nonViewVars]_vars
    /\ [][(deleteModal.type # "none" /\ deleteModal' = NoModal
             /\ ~DeleteDispatched /\ Mounted(directories', objs')) =>
            UNCHANGED nonViewVars]_vars

\* A confirmed delete of the entry's directory is waiting for the API, the
\* modal closed.
C10_Witness ==
    /\ \E i \in DOMAIN pending :
          pending[i].kind = "directoryDeleted" /\ pending[i].sid = entry
    /\ deleteModal = NoModal
    /\ ~root

\* The panel that belongs to a tab button.
PanelOf(name) ==
    CASE name = "Overview"     -> "overview"
      [] name = "My Templates" -> "myTemplates"
      [] name = "Favorites"    -> "favorites"
      [] name = "Client"       -> "client"
      [] name = "Container"    -> "container"
      [] name = "Import"       -> "import"
      [] OTHER                 -> "none"

\* C11: whichever tab button was clicked last, exactly one content panel is
\* visible, and it is the panel of that button, with or without a user.
C11_OnePanelPerTab ==
    /\ Len(VisibleTabs) = 1
    /\ VisibleTabs[1].content = PanelOf(ButtonNames[selectedTab + 1])

\* The positions of the log at which the referencer did `what` with `index`.
Positions(what, index) == {p \in DOMAIN log : log[p] = Did(what, index)}

\* C12: a patched visitClass or visitProperty visits every entry of
\* node.decorators that has an expression exactly once, in array order and
\* before the original visitor runs; an entry without an expression is not
\* visited, and a node without a decorators array has no decorator visit.
C12_DecoratorTraversal ==
    log # <<>> =>
        /\ Cardinality(Positions("original", 0)) = 1
        /\ \A i \in DOMAIN node.decorators :
              Cardinality(Positions("decorator", i)) = IF node.decorators[i] THEN 1 ELSE 0
        /\ \A p \in DOMAIN log :
              log[p].visit = "decorator" =>
                 /\ node.hasDecorators
                 /\ log[p].index \in DOMAIN node.decorators
                 /\ \A q \in Positions("original", 0) : p < q
                 /\ \A q \in DOMAIN log :
                       (log[q].visit = "decorator" /\ p < q) => log[p].index < log[q].index

\* A class with type parameters whose second decorator only has an
\* expression was visited.
C12_Witness ==
    /\ log # <<>>
    /\ node.decorators = <<FALSE, TRUE>>
    /\ node.typeParameters
    /\ Positions("decorator", 2) # {}

\* C13: when directoryDeleted or moduleDeleted failed at the API call, no
\* other action interleaved, the module selected at the end
\* (state.editor.currentModuleShortid) is the one selected before the action.
C13_SelectionRollback ==
    (Ended({"moduleDeleted", "directoryDeleted"}) /\ ~last.ok /\ last.alone) =>
        currentModuleShortid = last.preCurrent

\* C14: a moduleDeleted called with a shortid no module has leaves the
\* modules array as it was, while it waits for the API and after it ended,
\* on success and on failure (no other action having run meanwhile).
C14_DeleteAbsentModule ==
    /\ \A i \in DOMAIN pending :
          (pending[i].kind = "moduleDeleted" /\ pending[i].index = -1
              /\ pending[i].alone) => modules = pending[i].preModules
    /\ (Ended({"moduleDeleted"}) /\ last.index = -1 /\ last.alone) =>
          modules = last.preModules

\* C15: when renames of a module have overlapped and all of them have been
\* answered, the module's title is the title of the last rename the API
\* accepted, or the original title when it accepted none: the title the API
\* stores.
C15_OverlappingRenames ==
    \A module \in remote.overlapped :
        ~RenamePending(module) => objs[module].title = remote.title[module]

\* The entries of an array.
Entries(list) == {list[i] : i \in DOMAIN list}

\* C16: when other actions ran while a moduleCreated or directoryCreated was
\* waiting for the API, its completion removes no entry but its own
\* optimistic one, whether the API call succeeded or failed, and shows no
\* error toast when the API accepted the create.
C16_CreateCompletionOwnEntry ==
    (Ended({"moduleCreated", "directoryCreated"}) /\ ~last.alone) =>
        /\ Entries(last.awaitModules) \ {last.obj} \subseteq Entries(modules)
        /\ Entries(last.awaitDirectories) \ {last.obj} \subseteq Entries(directories)
        /\ last.ok => last.toasts = 0

\* The shortids met when following the parent links from the directory with
\* shortid `sid`, for at most n links.
RECURSIVE Ancestors(_, _)
Ancestors(sid, n) ==
    LET d == Find(directories, sid)
        parent == objs[d].directoryShortid
    IN  IF n = 0 \/ d = Null THEN {}
        ELSE IF parent = Null THEN {} ELSE {parent} \cup Ancestors(parent, n - 1)

\* C17: after any sequence of directory moves the drop target permits, with
\* any outcomes of the API, no directory is its own ancestor.
C17_AcyclicDirectories ==
    pending = <<>> =>
        \A i \in DOMAIN directories :
            objs[directories[i]].shortid
                \notin Ancestors(objs[directories[i]].shortid, Len(directories))

\* C18: whenever every action called so far has completed, the
\* directoryShortid of each module and of each directory of the sandbox is
\* null or the shortid of a directory of the sandbox.
C18_NoDanglingParents ==
    pending = <<>> =>
        \A r \in Entries(modules) \cup Entries(directories) :
            \/ objs[r].directoryShortid = Null
            \/ objs[r].directoryShortid \in ShortidsOf(directories)

\* The shortids of the entries of an array, as an array.
Shortids(list) == [k \in DOMAIN list |-> objs[list[k]].shortid]

\* C19: with ids from the API and from createOptimisticId never in use
\* before, no two directories of the sandbox have the same shortid and no two
\* modules have the same shortid, in every state.
C19_UniqueShortids ==
    /\ \A j, k \in DOMAIN modules :
          Shortids(modules)[j] = Shortids(modules)[k] => j = k
    /\ \A j, k \in DOMAIN directories :
          Shortids(directories)[j] = Shortids(directories)[k] => j = k

\* C20: a rename, create, move, delete or mass-create has sent on the live
\* channel only if state.live.isCurrentEditor was true when it sent.
C20_LiveOnlyFromEditor ==
    (Ended({"moduleRenamed", "directoryRenamed", "moduleCreated", "directoryCreated",
            "moduleMovedToDirectory", "directoryMovedToDirectory",
            "moduleDeleted", "directoryDeleted", "massCreateModules"})
        /\ last.live > 0) => last.isEditor

\* C21: when deletedUploadedFile ran with no other action interleaved and
\* deleteUploadedFile failed, state.uploadedFiles is the list from before the
\* action, in the same order, whatever id was passed; when it succeeded the
\* list is the one from before without the file of that id, and nothing else
\* is missing.
C21_UploadedFileDeleteRollback ==
    (Ended({"deletedUploadedFile"}) /\ last.alone) =>
        IF last.ok
          THEN uploadedFiles = SelectSeq(last.preUploaded, LAMBDA f : f # last.sid)
          ELSE uploadedFiles = last.preUploaded

\* The step starts a call (it suspends at its await or runs to its end).
Starts == started' = started + 1

\* The step is the end of a call that had been waiting for the API.
Completes == Len(pending') < Len(pending)

\* C22: the step that starts filesUploaded sets the current modal to
\* 'uploading'.  The step that ends it, after the upload succeeded and the
\* mass-create succeeded or failed, or after the upload failed with another
\* error, has closed the modals; after an error whose message holds 413 it
\* has left the modal as it was (still 'uploading' when nothing else ran) and
\* filesUploaded has shown no toast.
C22_UploadModalLifecycle ==
    [][ /\ (Starts /\ Dispatched.kind = "filesUploaded") => currentModal' = "uploading"
        /\ (Completes /\ last'.kind = "massCreateModules" /\ last'.nested) =>
              currentModal' = "none"
        /\ (Completes /\ last'.kind = "filesUploaded") =>
              IF last'.message = "413"
                THEN /\ currentModal' = currentModal
                     /\ last'.alone => currentModal' = "uploading"
                     /\ last'.toasts = 0
                ELSE currentModal' = "none" ]_vars

\* An upload that ran alone has failed with 413 and the modal is still open.
C22_Witness ==
    /\ last.kind = "filesUploaded" /\ last.message = "413" /\ last.alone
    /\ currentModal = "uploading"

\* C23: when a massCreateModules that was given a cbID has ended, exactly one
\* of callCallback(cbID) and callCallbackError(cbID, message) has been
\* called, once: callCallback when the API call succeeded, callCallbackError
\* when it failed.  When no cbID was given neither has been called.
C23_CallbackAnsweredOnce ==
    Ended({"massCreateModules"}) =>
        IF last.cbID
          THEN /\ last.callbacks + last.callbackErrors = 1
               /\ last.ok <=> last.callbacks = 1
          ELSE last.callbacks = 0 /\ last.callbackErrors = 0

\* A createModulesByPath has failed and the editor was told so; an upload's
\* mass-create, without cbID, is on its way.
C23_Witness ==
    /\ Ended({"massCreateModules"}) /\ last.cbID /\ ~last.ok
    /\ last.callbackErrors = 1
    /\ \E i \in DOMAIN pending : pending[i].kind = "massCreateModules" /\ ~pending[i].cbID

\* C24: when moduleCreated has succeeded, the current module is the module it
\* created, which is in the modules list and carries the shortid the server
\* gave; when it has failed, the current module is the sandbox's main module
\* and the module it had added is not in the modules list.
C24_SelectionAfterCreate ==
    Ended({"moduleCreated"}) =>
        IF last.ok
          THEN /\ objs[last.obj].shortid = last.apiShortid
               /\ IndexOf(modules, last.obj) >= 0
               /\ CurrentModuleShortid = last.apiShortid
          ELSE /\ IndexOf(modules, last.obj) = -1
               /\ CurrentModuleShortid = MainModuleShortid(modules, objs)

\* The array `list` without its k-th entry.
Without(list, k) == SubSeq(list, 1, k - 1) \o SubSeq(list, k + 1, Len(list))

\* The update is one the statement speaks of, on local modules `mods`: a
\* file update whose path resolves in the fetched sandbox, a file delete
\* whose path resolves locally, or an update whose path resolves to nothing.
Covered(mods, dirs, update) ==
    LET local == IF update.type = "file" THEN Resolve(update.path, mods, dirs)
                 ELSE Resolve(update.path, dirs, dirs)
        fetched == IF update.type = "file"
                     THEN Resolve(update.path, Fetched.modules, Fetched.directories)
                     ELSE Resolve(update.path, Fetched.directories, Fetched.directories)
    IN  \/ local = 0 /\ fetched = 0
        \/ update.type = "file" /\ update.op = "update" /\ fetched # 0
        \/ update.type = "file" /\ update.op = "delete" /\ local # 0

\* The local modules the statement asks for after one such update.
Expected(mods, dirs, update) ==
    LET local == Resolve(update.path, mods, dirs)
        fetched == Resolve(update.path, Fetched.modules, Fetched.directories)
    IN  IF update.type # "file" THEN mods
        ELSE IF update.op = "update" /\ fetched # 0 /\ local # 0
               THEN [mods EXCEPT ![local] = Fetched.modules[fetched]]
        ELSE IF update.op = "update" /\ fetched # 0
               THEN Append(mods, Fetched.modules[fetched])
        ELSE IF update.op = "delete" /\ local # 0
               THEN Without(mods, local)
        ELSE mods

\* The updates are all of that kind, each on the modules the ones before it
\* leave.
RECURSIVE AllCovered(_, _, _)
AllCovered(mods, dirs, updates) ==
    \/ updates = <<>>
    \/ /\ Covered(mods, dirs, Head(updates))
       /\ AllCovered(Expected(mods, dirs, Head(updates)), dirs, Tail(updates))

RECURSIVE ExpectedAll(_, _, _)
ExpectedAll(mods, dirs, updates) ==
    IF updates = <<>> THEN mods
    ELSE ExpectedAll(Expected(mods, dirs, Head(updates)), dirs, Tail(updates))

\* C25: when syncSandbox has applied a list of updates each of which is a
\* file update whose path resolves in the fetched sandbox, a file delete
\* whose path resolves locally, or an update whose path resolves to nothing,
\* the local modules are those obtained by taking the updates in order: the
\* module at a path that resolves in both sandboxes overwritten in place by
\* the fetched one, a module that resolves only in the fetched sandbox
\* appended, the module a delete resolves to removed, nothing changed for a
\* path that resolves to nothing; the directories are unchanged.
C25_SyncAppliesUpdates ==
    LET mods == Records(last.awaitModules, last.awaitObjs)
        dirs == Records(last.awaitDirectories, last.awaitObjs)
    IN  (Ended({"syncSandbox"}) /\ last.ok /\ AllCovered(mods, dirs, last.updates)) =>
            /\ Records(modules, objs) = ExpectedAll(mods, dirs, last.updates)
            /\ Records(directories, objs) = dirs

\* A sync appended the fetched module e and then overwrote it in place; one
\* module more than before is in the list.
C25_Witness ==
    /\ Ended({"syncSandbox"}) /\ last.ok
    /\ last.updates = << [op |-> "update", type |-> "file", path |-> <<"e">>],
                         [op |-> "update", type |-> "file", path |-> <<"a">>] >>
    /\ Len(modules) = Len(last.awaitModules) + 1
    /\ objs[modules[1]] = Fetched.modules[1]

\* C26: when getSandbox has failed, the local modules and directories are as
\* they were, and the error toast has been shown exactly once, unless the
\* response status of the error is 404, in which case none has been shown.
C26_SyncFailure ==
    (Ended({"syncSandbox"}) /\ ~last.ok) =>
        /\ modules = last.awaitModules
        /\ directories = last.awaitDirectories
        /\ objs = last.awaitObjs
        /\ last.toasts = IF last.message = "404" THEN 0 ELSE 1

\* C27: the open flag of a DirectoryEntry starts true for the root.  It is
\* true after a step in which a drag comes to hover over the entry, in which
\* create-module or create-directory is clicked, or in which the current
\* module changes and shouldDirectoryBeOpen(id) then holds.  A step takes it
\* from true to false only when it is a click on the entry (toggleOpen) or
\* closeTree; a change of the current module and a drag leaving never do.
C27_NeverClosesByItself ==
    /\ root => open
    /\ [][ /\ (~isOver /\ isOver') => open'
           /\ (ClickCreateModule \/ ClickCreateDirectory) => open'
           /\ (currentModuleShortid' # currentModuleShortid
                  /\ shouldDirectoryBeOpen(EntryId)') => open'
           /\ (open /\ ~open') => (ToggleOpen \/ CloseTree)
           /\ (currentModuleShortid' # currentModuleShortid \/ (isOver /\ ~isOver')) =>
                  (open => open') ]_vars

\* The entry of directory d, closed at first, is open after a module made in
\* it became the current module, and no drag hovers over it.
C27_Witness ==
    /\ entry = 8 /\ open /\ ~isOver
    /\ last.kind = "moduleCreated" /\ last.ok /\ last.dir = entry
    /\ shouldDirectoryBeOpen(EntryId)

\* C28: creating is null at first.  It becomes 'module' or 'directory' only
\* in a create click and becomes null again only in a submit or a cancel.
\* Each submit dispatches exactly one action, moduleCreated while creating a
\* module and directoryCreated while creating a directory, with
\* directoryShortid the shortid of this entry, and leaves creating null; a
\* cancel leaves creating null and dispatches nothing.
C28_InlineCreateLifecycle ==
    /\ creating = "null"
    /\ [][ /\ (creating' # creating /\ creating' # "null") =>
                  (ClickCreateModule \/ ClickCreateDirectory)
           /\ (creating # "null" /\ creating' = "null") =>
                  (SubmitModule \/ SubmitDirectory \/ CancelCreate)
           /\ (SubmitModule \/ SubmitDirectory) =>
                  /\ Starts
                  /\ Len(pending') = Len(pending) + 1
                  /\ Dispatched.kind = IF creating = "module" THEN "moduleCreated"
                                       ELSE "directoryCreated"
                  /\ Dispatched.dir = entry
                  /\ creating' = "null"
           /\ CancelCreate =>
                  /\ creating' = "null"
                  /\ started' = started /\ pending' = pending ]_vars

\* The entry of directory d has dispatched a directoryCreated for itself
\* and is creating nothing now.
C28_Witness ==
    /\ entry = 8 /\ creating = "null"
    /\ \E i \in DOMAIN pending :
          pending[i].kind = "directoryCreated" /\ pending[i].dir = entry

\* C29: a drop on an entry that is not the innermost one hovered dispatches
\* nothing.  Any other drop dispatches exactly one action, with
\* directoryShortid the shortid of the entry dropped on:
\* directoryMovedToDirectory for a dragged directory and
\* moduleMovedToDirectory for any other entry of the tree, at once, and
\* filesUploaded for files from outside, once they have been read.
C29_DropDispatch ==
    [][ /\ \A props \in Targets, source \in TreeItems \cup {NativeFiles},
              shallowOver \in BOOLEAN :
              drop(props, source, shallowOver) =>
                 IF ~shallowOver
                   THEN started' = started /\ pending' = pending /\ reading' = reading
                 ELSE IF source.dirContent
                   THEN /\ started' = started /\ pending' = pending
                        /\ reading' = Append(reading, props.shortid)
                 ELSE /\ Starts
                      /\ Dispatched.kind = IF source.directory
                                             THEN "directoryMovedToDirectory"
                                             ELSE "moduleMovedToDirectory"
                      /\ Dispatched.sid = source.shortid
                      /\ Dispatched.dir = props.shortid
                      /\ reading' = reading
        /\ \A k \in DOMAIN reading :
              filesRead(k) =>
                 /\ Starts
                 /\ Dispatched.kind = "filesUploaded"
                 /\ Dispatched.dir = reading[k]
                 /\ Len(reading') = Len(reading) - 1 ]_vars

\* Files dropped on directory d have been read and are being uploaded into
\* it.
C29_Witness ==
    /\ reading = <<>>
    /\ \E i \in DOMAIN pending :
          pending[i].kind = "filesUploaded" /\ pending[i].dir = 8

\* C30: while a call of the original visitFunction made by the patched
\* visitFunction is in progress, however functions are nested in the body
\* being visited, estraverse.VisitorKeys.ObjectPattern is ['properties'] and
\* estraverse.VisitorKeys.ArrayPattern is ['elements'].
C30_PatternKeysWhileVisiting ==
    visiting # <<>> =>
        /\ keys.ObjectPattern = <<"properties">>
        /\ keys.ArrayPattern = <<"elements">>

====
